---- MODULE Spec2Model ----
(***************************************************************************)
(* Velero backup item processing (pkg/backup, defaultItemBackupper) and    *)
(* the restore controller (pkg/controller, restoreController).             *)
(*                                                                         *)
(* One backup run: an external collaborator streams items to backupItem;   *)
(* backupItem filters, de-duplicates, runs hooks and custom actions (which *)
(* may pull in additional items through a recursive backupItem call),      *)
(* triggers volume snapshots / pod volume backups and writes the item to   *)
(* the tar archive.  The Go call stack is the variable stack; every        *)
(* external collaborator (hooks, plugins, discovery, dynamic client,       *)
(* snapshot providers, restic backupper, tar writer) answers               *)
(* nondeterministically.                                                   *)
(*                                                                         *)
(* The restore controller reconciles one Restore resource: the informer's  *)
(* add handler enqueues its key, a worker takes the key from the queue and *)
(* runs processQueueItem / processRestore step by step, and a returned     *)
(* error puts the key back on the queue.                                   *)
(*                                                                         *)
(* The backup deletion controller (pkg/controller,                         *)
(* backupDeletionController) reconciles one DeleteBackupRequest the same   *)
(* way: processQueueItem / processRequest run step by step, one API or     *)
(* backup store call per step, while a backup run may start or end.  Its   *)
(* test file pins the API calls of each path; the steps the tests leave    *)
(* open follow the specification of the controller.                        *)
(***************************************************************************)
EXTENDS Naturals, Sequences, FiniteSets, TLC

VARIABLES
    BackedUpItems,      \* backupRequest.BackedUpItems: set of itemKey
    tracker,            \* resticSnapshotTracker: set of <<namespace, pvc>>
    VolumeSnapshots,    \* backupRequest.VolumeSnapshots: sequence of records
    PodVolumeBackups,   \* backupRequest.PodVolumeBackups: sequence of <<pod, volume>>
    snapshotters,       \* ib.snapshotLocationVolumeSnapshotters: cached location names
    archive,            \* tarWriter: sequence of header / body entries
    stack,              \* call stack of backupItem invocations
    pvCalls,            \* provider calls made by the takePVSnapshot call of the item in progress
    lateTracked,        \* history: claims tracked when their volume already had a snapshot record
    attempted,          \* history: locations whose provider the getter has been asked for
    apiRestore,         \* the Restore as the API server has it
    listed,             \* the Restore as restoreLister (the informer cache) has it
    queue,              \* the Restore's key is on the work queue
    rc,                 \* the worker: its position in processQueueItem / processRestore, its locals
    calls,              \* collaborator calls made by the reconciliation in progress
    persisted,          \* history: the phases successfully patched, in order
    history,            \* history: deliveries of the key, a failed first patch, calls of
                        \* restorer.Restore, temp files left behind
    dbrs,               \* the DeleteBackupRequests as the API server has them, by name
    dbrLister,          \* the DeleteBackupRequests as the informer cache has them
    dqueue,             \* the DeleteBackupRequest's key is on the work queue
    dc,                 \* the deletion worker: its position in processRequest, its locals
    dcalls,             \* API, backup store and plugin calls of the reconciliation in progress
    backupTracker,      \* BackupTracker: names of the backups being created
    cluster,            \* the Backup, its storage location and its artifacts
    clock               \* the deletion controller's clock, in seconds

backupVars == <<BackedUpItems, tracker, VolumeSnapshots, PodVolumeBackups,
                snapshotters, archive, stack, pvCalls, lateTracked, attempted>>

restoreVars == <<apiRestore, listed, queue, rc, calls, persisted, history>>

deletionVars == <<dbrs, dbrLister, dqueue, dc, dcalls, backupTracker, cluster, clock>>

vars == <<backupVars, restoreVars, deletionVars>>

-----------------------------------------------------------------------------
(* Bounds *)

\* longest list of additional items one custom action returns
MaxAdditional == 2
\* number of volume snapshot locations of the run
NumLocations == 2

-----------------------------------------------------------------------------
(* The cluster the run sees *)

Pods == "pods"
PersistentVolumes == "persistentvolumes"
Namespaces == "namespaces"
ConfigMaps == "configmaps"
Secrets == "secrets"

NoClaim == <<>>
NIL == "<nil>"

\* the objects of the cluster, by id
Items == {"p1", "p2", "pv1", "pv2", "cm1", "cm2", "s1"}

Res(i) == CASE i \in {"p1", "p2"} -> Pods
            [] i \in {"pv1", "pv2"} -> PersistentVolumes
            [] i = "s1" -> Secrets
            [] OTHER -> ConfigMaps
Ns(i) == CASE i \in {"p1", "p2", "cm1", "s1"} -> "ns1"
           [] i \in {"pv1", "pv2"} -> ""
           [] OTHER -> "ns2"
Name(i) == i
\* metadata.GetDeletionTimestamp() is set
Deleting(i) == i = "cm1"
\* metadata.GetLabels()
Labels(i) == IF i \in {"p1", "p2", "pv1"} THEN {"app"} ELSE {}

\* GroupVersionKind string of an object of a group-resource
Kind(res) == CASE res = Pods -> "v1/Pod"
               [] res = PersistentVolumes -> "v1/PersistentVolume"
               [] res = Namespaces -> "v1/Namespace"
               [] res = Secrets -> "v1/Secret"
               [] OTHER -> "v1/ConfigMap"

\* volumes of a pod annotated for file-level backup, and the claim behind each
\* ("" when the volume is not backed by a PersistentVolumeClaim)
GetVolumesToBackup(i) == IF i = "p1" THEN {"v1"} ELSE {}
VolumeClaim(i, v) == IF i = "p1" /\ v = "v1" THEN "c1" ELSE ""

\* pv.Spec.ClaimRef
ClaimRef(i) == IF i = "pv1" THEN <<"ns1", "c1">> ELSE NoClaim

-----------------------------------------------------------------------------
(* The backup request *)

\* backupRequest.NamespaceIncludesExcludes.ShouldInclude
NamespaceShouldInclude(ns) == ns \in {"ns1"}
\* backupRequest.ResourceIncludesExcludes.ShouldInclude
ResourceShouldInclude(res) == res \in {Pods, PersistentVolumes, Namespaces, ConfigMaps}
\* backupRequest.Spec.IncludeClusterResources is nil or true
IncludeClusterResources == TRUE
\* backupRequest.Spec.SnapshotVolumes is nil or true
SnapshotVolumes == TRUE
\* ib.resticBackupper != nil
HasResticBackupper == TRUE

\* backupRequest.SnapshotLocations, in configured order
SnapshotLocations == [n \in 1..NumLocations |-> n]

\* backupRequest.ResolvedActions, in resolved order: each action with its
\* resource matcher, namespace matcher (everything, or a set) and label
\* selector (the labels it requires), and the related items its plugin knows
\* for an item
ResolvedActions ==
    << [resources |-> {Pods, PersistentVolumes}, everyNs |-> TRUE, namespaces |-> {},
        selector |-> {"app"},
        related |-> [i \in Items |->
                        CASE i = "p1" -> <<"p2", "cm2", "pv1">>
                          [] i = "p2" -> <<"pv1", "p2", "p1">>
                          [] OTHER -> <<"p1", "pv1", "p2">>]],
       [resources |-> {Pods}, everyNs |-> FALSE, namespaces |-> {"ns1"},
        selector |-> {},
        related |-> [i \in Items |->
                        CASE i = "p1" -> <<"pv1", "pv1", "p2">>
                          [] OTHER -> <<"p2", "p1", "pv1">>]] >>

NumActions == Len(ResolvedActions)

-----------------------------------------------------------------------------
(* Helpers *)

Top == stack[Len(stack)]
SetTop(f) == [stack EXCEPT ![Len(stack)] = f]

resourceKey(i) == Kind(Res(i))

itemKey(i) == <<resourceKey(i), Ns(i), Name(i)>>

\* filepath.Join(ResourcesDir, groupResource, {namespaces/<ns> | cluster}, name.json)
FilePath(res, ns, name) ==
    IF ns # "" THEN <<"resources", res, "namespaces", ns, name>>
               ELSE <<"resources", res, "cluster", name>>

NewFrame(i) ==
    [item |-> i, pc |-> "start", ai |-> 1, rem |-> <<>>, objName |-> Name(i),
     errs |-> <<>>, pre |-> "none", post |-> FALSE, pod |-> FALSE,
     vols |-> {}, hdr |-> FALSE, body |-> FALSE, skipped |-> "",
     result |-> "none"]

\* mutant: no item is excluded
ExcludedNever(i) == FALSE

\* the four exclusion tests at the head of backupItem
Excluded(i) ==
    \/ Ns(i) # "" /\ ~NamespaceShouldInclude(Ns(i))
    \/ Ns(i) = "" /\ Res(i) # Namespaces /\ ~IncludeClusterResources
    \/ ~ResourceShouldInclude(Res(i))
    \/ Deleting(i)

-----------------------------------------------------------------------------
\* no Restore object
NoRestore ==
    [phase |-> "none", backupName |-> "", scheduleName |-> "", invalid |-> {},
     validationErrors |-> <<>>, errors |-> 0, failureReason |-> ""]

\* nothing has happened to the Restore yet
NoHistory == [deliveries |-> 0, patchFailed |-> FALSE, restored |-> 0, tempFiles |-> {}]

\* the worker waits for a key
Idle ==
    [pc |-> "idle", restore |-> NoRestore, original |-> NoRestore, listing |-> <<>>,
     result |-> "none", patched |-> FALSE, ran |-> "none", finalPatch |-> "none",
     reported |-> 0]

\* the item backupper of a new backup run
InitBackup ==
    /\ BackedUpItems = {}
    /\ tracker = {}
    /\ VolumeSnapshots = <<>>
    /\ PodVolumeBackups = <<>>
    /\ snapshotters = {}
    /\ archive = <<>>
    /\ stack = <<>>
    /\ pvCalls = <<>>
    /\ lateTracked = {}
    /\ attempted = {}

\* a backup run; the restore controller has nothing to do
\* names of the DeleteBackupRequests: the one the worker reconciles, another
\* one for the same backup, one for another backup
RequestNames == {"foo-abcde", "bar", "bar-2"}

NoRequest ==
    [phase |-> "none", backupName |-> "", labels |-> {}, errors |-> <<>>, created |-> 0]

\* the time the deletion controller's clock shows first
Now == 172800

NoBackup ==
    [backup |-> "none", location |-> "missing", snapshots |-> {}, restic |-> FALSE,
     restores |-> {}, restoreFiles |-> {}, contents |-> FALSE]

\* the deletion worker waits for a key
DIdle == [pc |-> "idle", req |-> NoRequest, errs |-> <<>>, result |-> "none",
          tracked |-> FALSE, failed |-> ""]

\* no restore controller
InitNoRestore ==
    /\ apiRestore = NoRestore
    /\ listed = NoRestore
    /\ queue = FALSE
    /\ rc = Idle
    /\ calls = <<>>
    /\ persisted = <<>>
    /\ history = NoHistory

\* no backup deletion controller
InitNoDeletion ==
    /\ dbrs = [n \in RequestNames |-> NoRequest]
    /\ dbrLister = [n \in RequestNames |-> NoRequest]
    /\ dqueue = FALSE
    /\ dc = DIdle
    /\ dcalls = <<>>
    /\ backupTracker = {}
    /\ cluster = NoBackup
    /\ clock = Now

Init ==
    /\ InitBackup
    /\ InitNoRestore
    /\ InitNoDeletion

\* the items the streaming collaborator discovers in a run over the
\* namespaces' workloads: the pods, the claimed volume, the config maps
\* and the secret
StreamedItems == {"p1", "p2", "pv1", "cm1", "cm2", "s1"}

\* the items it discovers in a run over the cluster's persistent volumes
\* (the pods are then reached as additional items only)
StreamedVolumes == {i \in Items : Res(i) = PersistentVolumes}

\* the streaming collaborator calls backupItem on a discovered item
BackupItemCall ==
    /\ stack = <<>>
    /\ UNCHANGED <<restoreVars, deletionVars>>
    /\ \E i \in StreamedItems :
        stack' = <<NewFrame(i)>>
    /\ pvCalls' = <<>>
    /\ UNCHANGED <<BackedUpItems, tracker, VolumeSnapshots, PodVolumeBackups,
                   snapshotters, archive, lateTracked, attempted>>

\* the streaming collaborator calls backupItem on a discovered volume
BackupVolumeCall ==
    /\ stack = <<>>
    /\ UNCHANGED <<restoreVars, deletionVars>>
    /\ \E i \in StreamedVolumes :
        stack' = <<NewFrame(i)>>
    /\ pvCalls' = <<>>
    /\ UNCHANGED <<BackedUpItems, tracker, VolumeSnapshots, PodVolumeBackups,
                   snapshotters, archive, lateTracked, attempted>>

\* mutant: the claims are tracked under the volumes' names
TrackByVolumeName(i, volumes) == {<<Ns(i), v>> : v \in volumes}

\* pvcSnapshotTracker.Track: the claims behind the pod's volumes to back up
Track(i, volumes) ==
    {<<Ns(i), VolumeClaim(i, v)>> : v \in {w \in volumes : VolumeClaim(i, w) # ""}}

\* the claims of the volumes that have a record in VolumeSnapshots
SnapshottedClaims ==
    {ClaimRef(i) : i \in {j \in Items : \E n \in 1..Len(VolumeSnapshots) :
                                          VolumeSnapshots[n].pv = Name(j)}}

\* pvcSnapshotTracker.Has
TrackerHas(claim) == claim \in tracker

\* mutant: the dedup check never finds the key
NeverBackedUp(i) == FALSE

\* the key is already recorded in BackedUpItems
AlreadyBackedUp(i) == itemKey(i) \in BackedUpItems

\* mutant: the key is not recorded
RecordKeyDropped(keys, i) == keys

\* BackedUpItems after the key of item i has been recorded
RecordKey(keys, i) == keys \cup {itemKey(i)}

\* head of backupItem: exclusion tests, then the dedup check and insert
Enter ==
    /\ stack # <<>>
    /\ UNCHANGED <<restoreVars, deletionVars>>
    /\ Top.pc = "start"
    /\ LET f == Top IN
        IF Excluded(f.item)
        THEN /\ stack' = SetTop([f EXCEPT !.pc = "done", !.result = "nil",
                                          !.skipped = "filter"])
             /\ UNCHANGED BackedUpItems
        ELSE IF AlreadyBackedUp(f.item)
        THEN /\ stack' = SetTop([f EXCEPT !.pc = "done", !.result = "nil",
                                          !.skipped = "dedup"])
             /\ UNCHANGED BackedUpItems
        ELSE /\ BackedUpItems' = RecordKey(BackedUpItems, f.item)
             /\ stack' = SetTop([f EXCEPT !.pc = "prehooks"])
    /\ UNCHANGED <<tracker, VolumeSnapshots, PodVolumeBackups, snapshotters,
                   archive, pvCalls, lateTracked, attempted>>

\* mutant: the action error is returned at once, without post hooks
AfterActionErrorNoPostHooks(f, hookOk) ==
    [f EXCEPT !.pc = "done", !.result = "err"]

\* the frame after a failed action step once the post hooks have run
AfterActionError(f, hookOk) ==
    [f EXCEPT !.post = TRUE, !.pc = "done", !.result = "err",
              !.errs = IF hookOk THEN @ ELSE Append(@, "post")]

\* the frame after a failed pre hook: backupItem returns the hook's error
AfterPreHookError(f) == [f EXCEPT !.pre = "err", !.pc = "done", !.result = "err"]

\* pre hooks, then (for a pod) conversion and registration of its volumes
PreHooks ==
    /\ stack # <<>>
    /\ UNCHANGED <<restoreVars, deletionVars>>
    /\ Top.pc = "prehooks"
    /\ LET f == Top IN
        \E hookOk \in BOOLEAN, convOk \in BOOLEAN :
            IF ~hookOk
            THEN /\ convOk
                 /\ stack' = SetTop(AfterPreHookError(f))
                 /\ UNCHANGED <<tracker, lateTracked>>
            ELSE IF Res(f.item) # Pods
            THEN /\ convOk
                 /\ stack' = SetTop([f EXCEPT !.pre = "ok", !.pc = "actions"])
                 /\ UNCHANGED <<tracker, lateTracked>>
            ELSE IF ~convOk
            THEN /\ stack' = SetTop([f EXCEPT !.pre = "ok", !.pc = "actions",
                                              !.errs = Append(@, "podconv")])
                 /\ UNCHANGED <<tracker, lateTracked>>
            ELSE /\ stack' = SetTop([f EXCEPT !.pre = "ok", !.pc = "actions",
                                              !.pod = TRUE,
                                              !.vols = GetVolumesToBackup(f.item)])
                 /\ tracker' = tracker \cup Track(f.item, GetVolumesToBackup(f.item))
                 /\ lateTracked' = lateTracked \cup
                        {c \in Track(f.item, GetVolumesToBackup(f.item)) \ tracker :
                            c \in SnapshottedClaims}
    /\ UNCHANGED <<BackedUpItems, VolumeSnapshots, PodVolumeBackups, snapshotters,
                   archive, pvCalls, attempted>>

\* the matcher tests of executeActions, on the item's original namespace
ActionApplies(a, i) ==
    /\ Res(i) \in a.resources
    /\ Ns(i) # "" => (a.everyNs \/ Ns(i) \in a.namespaces)
    /\ Ns(i) = "" => a.everyNs
    /\ a.selector \subseteq Labels(i)

\* index of the first action at or after ai that applies to the item, 0 if none
NextAction(f) ==
    LET S == {k \in f.ai..NumActions : ActionApplies(ResolvedActions[k], f.item)}
    IN IF S = {} THEN 0 ELSE CHOOSE k \in S : \A j \in S : k <= j

\* the frame once the additional items of action k are all processed
AfterAdditional(f) == [f EXCEPT !.ai = @ + 1, !.rem = <<>>, !.pc = "actions"]

\* the lists of additional items action k may return for item i
AdditionalItemLists(k, i) ==
    {SubSeq(ResolvedActions[k].related[i], 1, n) : n \in 0..MaxAdditional}

\* the names an action may give the item it returns, besides the item's own:
\* the pod p1 may come back under the name of the pod p2
RenamedTo(i) == IF i = "p1" THEN {"p2"} ELSE {}

\* executeActions: action.Execute on the next applicable action
ExecuteAction ==
    /\ stack # <<>>
    /\ UNCHANGED <<restoreVars, deletionVars>>
    /\ Top.pc = "actions"
    /\ NextAction(Top) # 0
    /\ LET f == Top
           k == NextAction(Top)
       IN \E out \in {"err", NIL, Name(f.item)} \cup RenamedTo(f.item),
             more \in AdditionalItemLists(k, f.item) :
            /\ out = "err" => more = <<>>
            /\ IF out = "err"
               THEN stack' = SetTop([f EXCEPT !.ai = k, !.pc = "posthooksErr",
                                              !.errs = Append(@, "actions")])
               ELSE IF more = <<>>
               THEN stack' = SetTop(AfterAdditional([f EXCEPT !.ai = k, !.objName = out]))
               ELSE stack' = SetTop([f EXCEPT !.ai = k, !.objName = out, !.rem = more,
                                              !.pc = "additional"])
    /\ UNCHANGED <<BackedUpItems, tracker, VolumeSnapshots, PodVolumeBackups,
                   snapshotters, archive, pvCalls, lateTracked, attempted>>

\* mutant: the additional item is queued and the action loop goes on first
CallAdditionalDeferred(f) ==
    Append(SubSeq(stack, 1, Len(stack) - 1), NewFrame(Head(f.rem)))
        \o <<[f EXCEPT !.rem = Tail(@),
                       !.pc = IF Tail(f.rem) = <<>> THEN "actions" ELSE "additional",
                       !.ai = IF Tail(f.rem) = <<>> THEN @ + 1 ELSE @]>>

\* the stack once the next additional item has been fetched: the recursive call starts now
CallAdditional(f) ==
    Append(SetTop([f EXCEPT !.rem = Tail(@), !.pc = "await"]), NewFrame(Head(f.rem)))

\* executeActions: resolve and fetch the next additional item, then recurse
FetchAdditional ==
    /\ stack # <<>>
    /\ UNCHANGED <<restoreVars, deletionVars>>
    /\ Top.pc = "additional"
    /\ LET f == Top IN
        \E fetchOk \in BOOLEAN :
            IF ~fetchOk
            THEN stack' = SetTop([f EXCEPT !.pc = "posthooksErr",
                                           !.errs = Append(@, "actions")])
            ELSE stack' = CallAdditional(f)
    /\ UNCHANGED <<BackedUpItems, tracker, VolumeSnapshots, PodVolumeBackups,
                   snapshotters, archive, pvCalls, lateTracked, attempted>>

\* executeActions returned without error: re-read the metadata of the updated object
ActionsDone ==
    /\ stack # <<>>
    /\ UNCHANGED <<restoreVars, deletionVars>>
    /\ Top.pc = "actions"
    /\ NextAction(Top) = 0
    /\ LET f == Top IN
        stack' = SetTop(
            IF f.objName = NIL
            THEN [f EXCEPT !.pc = "done", !.result = "err"]
            ELSE IF Res(f.item) = PersistentVolumes
            THEN [f EXCEPT !.pc = "pvsnapshot"]
            ELSE IF Res(f.item) = Pods /\ f.pod
            THEN [f EXCEPT !.pc = "podvolumes"]
            ELSE [f EXCEPT !.pc = "posthooks"])
    /\ UNCHANGED <<BackedUpItems, tracker, VolumeSnapshots, PodVolumeBackups,
                   snapshotters, archive, pvCalls, lateTracked, attempted>>

\* an action or an additional item failed: post hooks, then the aggregate error
PostHooksAfterActionError ==
    /\ stack # <<>>
    /\ UNCHANGED <<restoreVars, deletionVars>>
    /\ Top.pc = "posthooksErr"
    /\ \E hookOk \in BOOLEAN :
        stack' = SetTop(AfterActionError(Top, hookOk))
    /\ UNCHANGED <<BackedUpItems, tracker, VolumeSnapshots, PodVolumeBackups,
                   snapshotters, archive, pvCalls, lateTracked, attempted>>

\* a backupItem call returns to its caller
Return ==
    /\ stack # <<>>
    /\ UNCHANGED <<restoreVars, deletionVars>>
    /\ Top.pc = "done"
    /\ IF Len(stack) = 1
       THEN /\ stack' = <<>>
            /\ pvCalls' = <<>>
       ELSE LET p == stack[Len(stack) - 1]
                rest == SubSeq(stack, 1, Len(stack) - 2)
            IN /\ stack' = Append(rest,
                     IF Top.result = "err"
                     THEN [p EXCEPT !.pc = "posthooksErr", !.errs = Append(@, "actions")]
                     ELSE IF p.rem = <<>> THEN AfterAdditional(p)
                     ELSE [p EXCEPT !.pc = "additional"])
               /\ pvCalls' = <<>>
    /\ UNCHANGED <<BackedUpItems, tracker, VolumeSnapshots, PodVolumeBackups,
                   snapshotters, archive, lateTracked, attempted>>

-----------------------------------------------------------------------------
(* takePVSnapshot *)

\* what one location's provider can answer in the loop of takePVSnapshot:
\* the getter fails, Init fails, GetVolumeID fails, returns "" or returns an ID
LocOutcomes == {"getterErr", "initErr", "idErr", "empty", "id"}

\* a cached snapshotter is returned without calling the getter or Init
PossibleOutcomes(cache) ==
    {o \in [1..NumLocations -> LocOutcomes] :
        \A n \in 1..NumLocations : n \in cache => o[n] \in {"idErr", "empty", "id"}}

\* mutant: the loop does not break, the last location with an ID wins
SelectedLocationLast(outs) ==
    LET S == {n \in 1..NumLocations : outs[n] = "id"}
    IN IF S = {} THEN 0 ELSE CHOOSE n \in S : \A m \in S : n >= m

\* the location the loop breaks at: the first whose provider returns a
\* non-empty ID without error; 0 when the loop runs to its end
SelectedLocation(outs) ==
    LET S == {n \in 1..NumLocations : outs[n] = "id"}
    IN IF S = {} THEN 0 ELSE CHOOSE n \in S : \A m \in S : n <= m

\* the locations the loop visits
VisitedLocations(outs) ==
    IF SelectedLocation(outs) = 0 THEN 1..NumLocations
    ELSE 1..SelectedLocation(outs)

\* volumeSnapshotter + GetVolumeID on one visited location, each call with
\* what it returned
LocationCalls(n, out, cache) ==
    LET get == IF n \in cache THEN <<>>
               ELSE IF out = "getterErr"
               THEN <<[loc |-> n, call |-> "GetVolumeSnapshotter", ret |-> "err"]>>
               ELSE <<[loc |-> n, call |-> "GetVolumeSnapshotter", ret |-> "ok"],
                      [loc |-> n, call |-> "Init",
                       ret |-> IF out = "initErr" THEN "err" ELSE "ok"]>>
    IN IF out \in {"getterErr", "initErr"} THEN get
       ELSE Append(get, [loc |-> n, call |-> "GetVolumeID",
                         ret |-> IF out = "idErr" THEN "err" ELSE out])

RECURSIVE LoopCalls(_, _, _)
\* the provider calls of the loop from location n on
LoopCalls(n, outs, cache) ==
    IF n \notin VisitedLocations(outs) THEN <<>>
    ELSE LocationCalls(n, outs[n], cache) \o LoopCalls(n + 1, outs, cache)

\* the provider calls after the loop, on the selected location
SnapshotCalls(sel, infoOk, createOk) ==
    IF sel = 0 THEN <<>>
    ELSE IF ~infoOk THEN <<[loc |-> sel, call |-> "GetVolumeInfo", ret |-> "err"]>>
    ELSE <<[loc |-> sel, call |-> "GetVolumeInfo", ret |-> "ok"],
           [loc |-> sel, call |-> "CreateSnapshot",
            ret |-> IF createOk THEN "ok" ELSE "err"]>>

\* mutant: the initialised snapshotter is not stored
NewlyCachedNothing(outs) == {}

\* snapshotters initialised (and cached) by the loop
NewlyCached(outs) ==
    {n \in VisitedLocations(outs) : outs[n] \in {"idErr", "empty", "id"}}

\* mutant: a failed snapshot is not recorded
SnapshotRecordOnlyCompleted(pvName, sel, infoOk, createOk) ==
    IF sel = 0 \/ ~infoOk \/ ~createOk THEN <<>>
    ELSE <<[pv |-> pvName, location |-> SnapshotLocations[sel], phase |-> "Completed"]>>

\* the record takePVSnapshot appends, as a sequence of zero or one record
SnapshotRecord(pvName, sel, infoOk, createOk) ==
    IF sel = 0 \/ ~infoOk THEN <<>>
    ELSE <<[pv |-> pvName, location |-> SnapshotLocations[sel],
            phase |-> IF createOk THEN "Completed" ELSE "Failed"]>>

\* mutant: the tracker is not consulted
SkipsSnapshotNever(i) == FALSE

\* mutant: the tracker is asked for the volume's name instead of its claim's
SkipsSnapshotByVolumeName(i) ==
    ClaimRef(i) # NoClaim /\ TrackerHas(<<ClaimRef(i)[1], Name(i)>>)

\* takePVSnapshot skips the volume: the claim has been backed up with restic
SkipsSnapshot(i) == ClaimRef(i) # NoClaim /\ TrackerHas(ClaimRef(i))

\* backupItem on a PersistentVolume: takePVSnapshot
TakePVSnapshot ==
    /\ stack # <<>>
    /\ UNCHANGED <<restoreVars, deletionVars>>
    /\ Top.pc = "pvsnapshot"
    /\ LET f == Top IN
        \/ /\ ~SnapshotVolumes \/ SkipsSnapshot(f.item)
           /\ stack' = SetTop([f EXCEPT !.pc = "posthooks"])
           /\ pvCalls' = <<>>
           /\ UNCHANGED <<VolumeSnapshots, snapshotters, attempted>>
        \/ /\ SnapshotVolumes
           \* the object does not convert to a PersistentVolume
           /\ stack' = SetTop([f EXCEPT !.pc = "posthooks", !.errs = Append(@, "pvconv")])
           /\ pvCalls' = <<>>
           /\ UNCHANGED <<VolumeSnapshots, snapshotters, attempted>>
        \/ /\ SnapshotVolumes
           /\ ~SkipsSnapshot(f.item)
           /\ \E outs \in PossibleOutcomes(snapshotters),
                 infoOk \in BOOLEAN, createOk \in BOOLEAN :
                LET sel == SelectedLocation(outs) IN
                /\ (sel = 0 \/ ~infoOk) => createOk
                /\ sel = 0 => infoOk
                /\ pvCalls' = LoopCalls(1, outs, snapshotters)
                                \o SnapshotCalls(sel, infoOk, createOk)
                /\ snapshotters' = snapshotters \cup NewlyCached(outs)
                /\ attempted' = attempted \cup (VisitedLocations(outs) \ snapshotters)
                /\ VolumeSnapshots' =
                       VolumeSnapshots \o SnapshotRecord(f.objName, sel, infoOk, createOk)
                /\ stack' = SetTop([f EXCEPT !.pc = "posthooks",
                                             !.errs = IF sel # 0 /\ (~infoOk \/ ~createOk)
                                                      THEN Append(@, "pv") ELSE @])
    /\ UNCHANGED <<BackedUpItems, tracker, PodVolumeBackups, archive, lateTracked>>

-----------------------------------------------------------------------------
(* pod volumes, post hooks, archive *)

RECURSIVE SetToSeq(_)
SetToSeq(S) ==
    IF S = {} THEN <<>>
    ELSE LET x == CHOOSE y \in S : TRUE IN <<x>> \o SetToSeq(S \ {x})

\* what backupPodVolumes can return for the pod: the PodVolumeBackups of the
\* volumes that were backed up
PodVolumeResults(i, volumes) ==
    IF volumes = {} \/ ~HasResticBackupper THEN {<<>>}
    ELSE {SetToSeq({<<i, v>> : v \in done}) : done \in SUBSET volumes}

\* the request's list after backupItem has received the pod's PodVolumeBackups
RecordPodVolumeBackups(list, podVolumeBackups) == podVolumeBackups

\* backupItem on a pod: backupPodVolumes
BackupPodVolumes ==
    /\ stack # <<>>
    /\ UNCHANGED <<restoreVars, deletionVars>>
    /\ Top.pc = "podvolumes"
    /\ LET f == Top IN
        \E pvbs \in PodVolumeResults(f.item, f.vols), failed \in BOOLEAN :
            /\ (f.vols = {} \/ ~HasResticBackupper) => ~failed
            /\ PodVolumeBackups' = RecordPodVolumeBackups(PodVolumeBackups, pvbs)
            /\ stack' = SetTop([f EXCEPT !.pc = "posthooks",
                                         !.errs = IF failed THEN Append(@, "podvol") ELSE @])
    /\ UNCHANGED <<BackedUpItems, tracker, VolumeSnapshots, snapshotters, archive,
                   pvCalls, lateTracked, attempted>>

\* mutant: only the post hook's own error stops the write
AfterPostHooksIgnoringErrors(f, hookOk) ==
    IF ~hookOk
    THEN [f EXCEPT !.post = TRUE, !.errs = Append(@, "post"), !.pc = "done",
                   !.result = "err"]
    ELSE [f EXCEPT !.post = TRUE, !.pc = "write"]

\* the frame after the post hooks: done with the aggregate error, or on to the write
AfterPostHooks(f, hookOk) ==
    LET errs == IF hookOk THEN f.errs ELSE Append(f.errs, "post") IN
    IF errs # <<>>
    THEN [f EXCEPT !.post = TRUE, !.errs = errs, !.pc = "done", !.result = "err"]
    ELSE [f EXCEPT !.post = TRUE, !.pc = "write"]

\* post hooks, then the aggregate of the accumulated errors if there is any
PostHooks ==
    /\ stack # <<>>
    /\ UNCHANGED <<restoreVars, deletionVars>>
    /\ Top.pc = "posthooks"
    /\ \E hookOk \in BOOLEAN :
        stack' = SetTop(AfterPostHooks(Top, hookOk))
    /\ UNCHANGED <<BackedUpItems, tracker, VolumeSnapshots, PodVolumeBackups,
                   snapshotters, archive, pvCalls, lateTracked, attempted>>

\* json.Marshal, tarWriter.WriteHeader, tarWriter.Write
WriteItem ==
    /\ stack # <<>>
    /\ UNCHANGED <<restoreVars, deletionVars>>
    /\ Top.pc = "write"
    /\ LET f == Top
           path == FilePath(Res(f.item), Ns(f.item), f.objName)
           hdr == [kind |-> "header", path |-> path, key |-> itemKey(f.item)]
           body == [kind |-> "body", path |-> path, key |-> itemKey(f.item)]
       IN \E out \in {"ok", "marshalErr", "headerErr", "writeErr"} :
            /\ archive' = CASE out = "ok" -> archive \o <<hdr, body>>
                            [] out = "writeErr" -> Append(archive, hdr)
                            [] OTHER -> archive
            /\ stack' = SetTop([f EXCEPT !.pc = "done",
                                         !.hdr = out \in {"ok", "writeErr"},
                                         !.body = (out = "ok"),
                                         !.result = IF out = "ok" THEN "nil" ELSE "err"])
    /\ UNCHANGED <<BackedUpItems, tracker, VolumeSnapshots, PodVolumeBackups,
                   snapshotters, pvCalls, lateTracked, attempted>>

-----------------------------------------------------------------------------
(* Properties of the item backupper *)

\* entries of a kind written for a key in an archive
EntriesIn(arch, kind, k) ==
    {n \in 1..Len(arch) : arch[n].kind = kind /\ arch[n].key = k}

Entries(kind, k) == EntriesIn(archive, kind, k)

\* the item whose name a snapshot record carries
RecordClaim(r) == ClaimRef(CHOOSE i \in Items : Name(i) = r.pv)

\* C1: an item key causes at most one archive write in a run: the first call
\* that passes the filters records the key, the key is never removed, and a
\* later call with a recorded key returns nil and runs no hook, action or
\* volume step and writes nothing.
C1_DedupAtMostOneWrite ==
    [][ /\ BackedUpItems \subseteq BackedUpItems'
        /\ \A i \in Items :
              /\ Cardinality(Entries("header", itemKey(i)))' <= 1
              /\ Cardinality(Entries("body", itemKey(i)))' <= 1
        /\ (stack # <<>> /\ Top.pc = "start" /\ ~Excluded(Top.item))
              => itemKey(Top.item) \in BackedUpItems'
        /\ (stack # <<>> /\ Top.pc = "start" /\ itemKey(Top.item) \in BackedUpItems)
              => /\ Len(stack') = Len(stack)
                 /\ stack'[Len(stack')] = [Top EXCEPT !.pc = "done", !.result = "nil",
                                                       !.skipped = "dedup"]
                 /\ UNCHANGED <<BackedUpItems, tracker, VolumeSnapshots,
                                PodVolumeBackups, snapshotters, archive, pvCalls>>
      ]_vars

\* C1 witness: a recursive call on an item already archived has returned at the dedup check
C1_Witness ==
    /\ Len(stack) > 1
    /\ Top.pc = "done"
    /\ Top.skipped = "dedup"
    /\ Top.result = "nil"
    /\ Cardinality(Entries("body", itemKey(Top.item))) = 1

\* C2: takePVSnapshot on a PersistentVolume whose claim is in the file-level
\* backup tracker calls no provider (GetVolumeID, GetVolumeInfo,
\* CreateSnapshot), appends no record and returns no error.
C2_TrackedClaimNoSnapshot ==
    [][ (stack # <<>> /\ Top.pc = "pvsnapshot" /\ ClaimRef(Top.item) # NoClaim
           /\ ClaimRef(Top.item) \in tracker)
        => /\ pvCalls' = <<>>
           /\ VolumeSnapshots' = VolumeSnapshots
           /\ snapshotters' = snapshotters
           /\ Len(stack') = Len(stack)
           /\ stack'[Len(stack')].pc = "posthooks"
           \* the only error possible is an object that is no PersistentVolume at all
           /\ stack'[Len(stack')].errs \in {Top.errs, Append(Top.errs, "pvconv")}
      ]_vars

\* C2 witness: a volume whose claim is tracked has passed takePVSnapshot untouched
C2_Witness ==
    /\ stack # <<>>
    /\ Top.item = "pv1"
    /\ Top.pc = "posthooks"
    /\ Top.errs = <<>>
    /\ ClaimRef("pv1") \in tracker
    /\ VolumeSnapshots = <<>>
    /\ pvCalls = <<>>

\* C3 as stated: at the end of a backupItem call, whatever the order of the
\* items, no volume has both a snapshot record and a tracked claim.
C3_NeverBoth ==
    stack = <<>> =>
        \A n \in 1..Len(VolumeSnapshots) : RecordClaim(VolumeSnapshots[n]) \notin tracker

\* C3 amended: a volume has both a snapshot record and a tracked claim only
\* when the record was there before the claim was tracked (the volume was
\* processed before the pod): no record is added for a claim already tracked.
C3_BothOnlyWhenVolumeFirst ==
    \A n \in 1..Len(VolumeSnapshots) :
        RecordClaim(VolumeSnapshots[n]) \in tracker
            => RecordClaim(VolumeSnapshots[n]) \in lateTracked

\* C3 witness: the pod came first, the volume was archived later without a snapshot
C3_Witness ==
    /\ stack = <<>>
    /\ ClaimRef("pv1") \in tracker
    /\ Entries("body", itemKey("pv1")) # {}
    /\ VolumeSnapshots = <<>>

\* positions of the calls of one provider method in pvCalls
CallsOf(method) == {n \in 1..Len(pvCalls) : pvCalls[n].call = method}

\* positions in pvCalls where a provider returned a non-empty volume ID
Selections == {n \in CallsOf("GetVolumeID") : pvCalls[n].ret = "id"}

\* C4: takePVSnapshot tries the locations in configured order and stops at
\* the first whose provider returns a non-empty volume ID without error: no
\* location is skipped, no later location is asked, GetVolumeInfo and
\* CreateSnapshot go to the selected provider only, and the record names it.
C4_FirstLocationWins ==
    /\ \A m, n \in 1..Len(pvCalls) : m < n => pvCalls[m].loc <= pvCalls[n].loc
    /\ \A m, n \in CallsOf("GetVolumeID") : m < n => pvCalls[m].loc < pvCalls[n].loc
    /\ \A n \in 1..Len(pvCalls) : \A l \in 1..(pvCalls[n].loc - 1) :
          \E m \in 1..(n - 1) : pvCalls[m].loc = l
    /\ \A n \in Selections : \A m \in (n + 1)..Len(pvCalls) :
          /\ pvCalls[m].loc = pvCalls[n].loc
          /\ pvCalls[m].call \in {"GetVolumeInfo", "CreateSnapshot"}
    /\ \A n \in CallsOf("GetVolumeInfo") \cup CallsOf("CreateSnapshot") :
          \E m \in Selections : m < n /\ pvCalls[m].loc = pvCalls[n].loc
    /\ \A n \in CallsOf("CreateSnapshot") :
          /\ VolumeSnapshots # <<>>
          /\ VolumeSnapshots[Len(VolumeSnapshots)].location
                = SnapshotLocations[pvCalls[n].loc]

\* C4 witness: the first location returned no volume ID, the second was
\* selected and snapshotted
C4_Witness ==
    /\ \E n \in CallsOf("GetVolumeID") : pvCalls[n].loc = 1 /\ pvCalls[n].ret = "empty"
    /\ \E n \in CallsOf("CreateSnapshot") : pvCalls[n].loc = 2 /\ pvCalls[n].ret = "ok"
    /\ VolumeSnapshots[Len(VolumeSnapshots)].location = SnapshotLocations[2]

\* takePVSnapshot is the step being taken
InTakePVSnapshot == stack # <<>> /\ Top.pc = "pvsnapshot"

\* C5 as stated: a takePVSnapshot call appends exactly one record when a
\* location was selected, whatever the later provider calls answer, and none
\* when no location was selected.
C5_RecordPerSelection ==
    [][ InTakePVSnapshot =>
            IF Selections' # {}
            THEN Len(VolumeSnapshots') = Len(VolumeSnapshots) + 1
            ELSE VolumeSnapshots' = VolumeSnapshots ]_vars

\* C5 amended: a takePVSnapshot call appends exactly one record when a
\* location was selected and GetVolumeInfo succeeded, Completed or Failed as
\* CreateSnapshot answered; it appends none when no location was selected or
\* GetVolumeInfo failed.
C5_RecordPerCreateSnapshot ==
    [][ InTakePVSnapshot =>
            IF \E n \in CallsOf("GetVolumeInfo")' : pvCalls'[n].ret = "ok"
            THEN /\ Len(VolumeSnapshots') = Len(VolumeSnapshots) + 1
                 /\ SubSeq(VolumeSnapshots', 1, Len(VolumeSnapshots)) = VolumeSnapshots
                 /\ \E n \in CallsOf("CreateSnapshot")' :
                       VolumeSnapshots'[Len(VolumeSnapshots')].phase =
                           IF pvCalls'[n].ret = "ok" THEN "Completed" ELSE "Failed"
            ELSE VolumeSnapshots' = VolumeSnapshots ]_vars

\* C5 witness: CreateSnapshot failed and the record is there, Failed
C5_Witness ==
    /\ \E n \in CallsOf("CreateSnapshot") : pvCalls[n].ret = "err"
    /\ VolumeSnapshots # <<>>
    /\ VolumeSnapshots[Len(VolumeSnapshots)].phase = "Failed"
    /\ Top.errs = <<"pv">>

\* the call of this frame met an error in a hook, the pod conversion, an
\* action, an additional item, the volume snapshot or the pod volume backup
HadError(f) == f.errs # <<>> \/ f.pre = "err"

\* C6: an item that met an error in any step is not written: the call
\* returns an error and the archive has neither header nor body for it.
C6_NoWriteAfterError ==
    \A d \in 1..Len(stack) :
        HadError(stack[d]) =>
            /\ Entries("header", itemKey(stack[d].item)) = {}
            /\ Entries("body", itemKey(stack[d].item)) = {}
            /\ ~stack[d].hdr /\ ~stack[d].body
            /\ stack[d].pc # "write"
            /\ stack[d].pc = "done" => stack[d].result = "err"

\* C6 witness: the volume snapshot failed, post hooks ran, the call returns the error
C6_Witness ==
    /\ stack # <<>>
    /\ Top.pc = "done"
    /\ Top.errs = <<"pv">>
    /\ Top.post
    /\ Top.result = "err"

\* C7 as stated: every call that started its pre hooks runs the post hooks
\* before it returns.
C7_PostHooksAlways ==
    \A d \in 1..Len(stack) :
        (stack[d].pc = "done" /\ stack[d].pre # "none") => stack[d].post

\* C7 amended: every call whose pre hooks succeeded runs the post hooks
\* before it returns, whether an action, an additional item, the volume
\* snapshot or the pod volume backup failed, unless the actions left no
\* readable object; a call whose pre hooks failed returns at once, without
\* post hooks.
C7_PostHooksAfterPreHooksOk ==
    \A d \in 1..Len(stack) :
        stack[d].pc = "done" =>
            /\ (stack[d].pre = "ok"
                  /\ (stack[d].objName # NIL \/ "actions" \in
                        {stack[d].errs[n] : n \in 1..Len(stack[d].errs)}))
               => stack[d].post
            /\ stack[d].pre = "err" => ~stack[d].post

\* C7 witness: an action failed and the post hooks have run
C7_Witness ==
    /\ stack # <<>>
    /\ Top.pc = "done"
    /\ Top.errs = <<"actions">>
    /\ Top.post

\* C8: the expansion is depth-first and action-ordered: a call starts on the
\* next additional item of the list, in list order, only from the top frame;
\* every frame below the top waits in its action loop, unwritten, and changes
\* only when the call above it returns; the action index of a frame never
\* goes back.
C8_DepthFirst ==
    [][ /\ \A d \in 1..Len(stack') :
              d < Len(stack') =>
                 /\ stack'[d].pc = "await"
                 /\ ~stack'[d].hdr
                 /\ EntriesIn(archive', "header", itemKey(stack'[d].item)) = {}
        /\ \A d \in 1..Len(stack) :
              (d <= Len(stack') /\ stack'[d] # stack[d]) =>
                 \/ d = Len(stack)
                 \/ d = Len(stack) - 1 /\ Top.pc = "done" /\ Len(stack') = d
        /\ Len(stack') = Len(stack) + 1 /\ stack # <<>> =>
              /\ Top.pc = "additional"
              /\ stack'[Len(stack')] = NewFrame(Head(Top.rem))
              /\ stack'[Len(stack)] = [Top EXCEPT !.rem = Tail(@), !.pc = "await"]
        /\ \A d \in 1..Len(stack) :
              d <= Len(stack') =>
                 /\ stack'[d].ai >= stack[d].ai
                 /\ stack'[d].ai > stack[d].ai => stack[d].rem = <<>> \/ stack[d].pc = "actions"
        /\ Len(stack') <= Len(stack) + 1
      ]_vars

\* C8 witness: three calls deep, the outer action still has an additional item to go
C8_Witness ==
    /\ Len(stack) = 3
    /\ stack[1].rem # <<>>
    /\ stack[2].pc = "await"
    /\ Top.pc = "write"

\* C9 as stated: once a top-level call has returned, every key in
\* BackedUpItems has its entry in the archive.
C9_RecordedMeansArchived ==
    stack = <<>> => \A k \in BackedUpItems : Entries("body", k) # {}

\* C9 amended: BackedUpItems records the items whose processing was started:
\* every entry of the archive belongs to a key in BackedUpItems, and every
\* key in BackedUpItems belongs to an item that passed the filters; a key
\* whose processing failed stays recorded without an entry.
C9_ArchivedMeansRecorded ==
    /\ \A n \in 1..Len(archive) : archive[n].key \in BackedUpItems
    /\ \A k \in BackedUpItems : \E i \in Items : itemKey(i) = k /\ ~Excluded(i)

\* C9 witness: a top-level call has returned, its key is recorded, nothing was written
C9_Witness ==
    /\ stack = <<>>
    /\ BackedUpItems = {itemKey("p1")}
    /\ archive = <<>>

\* C10: the PodVolumeBackups list only grows in a run.
C10_PodVolumeBackupsAccumulate ==
    [][ \A n \in 1..Len(PodVolumeBackups) :
            \E m \in 1..Len(PodVolumeBackups') :
                PodVolumeBackups'[m] = PodVolumeBackups[n] ]_vars

\* a pod frame that has reached its custom actions
InActions(f) ==
    Res(f.item) = Pods /\ f.pc \in {"actions", "additional", "await", "posthooksErr"}

\* the volume of the top frame is reached from the actions of a pod, below
\* it on the stack, one of whose volumes to back up has the volume's claim
ReachedFromPod(d) ==
    /\ d < Len(stack)
    /\ Res(stack[d].item) = Pods
    /\ stack[d].pc = "await"
    /\ ClaimRef(Top.item) # NoClaim
    /\ ClaimRef(Top.item) \in
          {<<Ns(stack[d].item), VolumeClaim(stack[d].item, v)>> :
              v \in GetVolumesToBackup(stack[d].item)}

\* C11 as stated: every pod that has reached its custom actions has the
\* claims of its volumes to back up in the tracker, and takePVSnapshot on a
\* volume reached from the actions of such a pod, directly or through other
\* items, calls no provider and appends no record.
C11_TrackedBeforeActions ==
    [][ /\ \A d \in 1..Len(stack) :
              InActions(stack[d]) =>
                 \A v \in GetVolumesToBackup(stack[d].item) :
                    VolumeClaim(stack[d].item, v) # "" =>
                       <<Ns(stack[d].item), VolumeClaim(stack[d].item, v)>> \in tracker
        /\ (InTakePVSnapshot /\ \E d \in 1..Len(stack) : ReachedFromPod(d))
              => VolumeSnapshots' = VolumeSnapshots /\ pvCalls' = <<>>
      ]_vars

\* C11 amended: the same for every pod whose object converted to a Pod; a
\* pod whose conversion failed registers nothing, its actions still run, and
\* a volume they reach is snapshotted.
C11_TrackedBeforeActionsOfConvertedPod ==
    [][ /\ \A d \in 1..Len(stack) :
              (InActions(stack[d]) /\ stack[d].pod) =>
                 \A v \in GetVolumesToBackup(stack[d].item) :
                    VolumeClaim(stack[d].item, v) # "" =>
                       <<Ns(stack[d].item), VolumeClaim(stack[d].item, v)>> \in tracker
        /\ (InTakePVSnapshot /\ \E d \in 1..Len(stack) : ReachedFromPod(d) /\ stack[d].pod)
              => /\ VolumeSnapshots' = VolumeSnapshots
                 /\ pvCalls' = <<>>
                 /\ snapshotters' = snapshotters
        /\ \A d \in 1..Len(stack) :
              (InActions(stack[d]) /\ ~stack[d].pod) =>
                 "podconv" \in {stack[d].errs[n] : n \in 1..Len(stack[d].errs)}
      ]_vars

\* C11 witness: the volume was reached from pod p1 through pod p2 and has
\* passed takePVSnapshot without a provider call or a record
C11_Witness ==
    /\ Len(stack) = 3
    /\ stack[1].item = "p1" /\ stack[1].pod /\ stack[1].pc = "await"
    /\ stack[2].item = "p2" /\ stack[2].pc = "await"
    /\ Top.item = "pv1"
    /\ Top.pc = "posthooks"
    /\ Top.errs = <<>>
    /\ VolumeSnapshots = <<>>
    /\ pvCalls = <<>>

\* C12 as stated: in a run, GetVolumeSnapshotter and Init are called for a
\* location only if the getter was never asked for that location before.
C12_OncePerLocation ==
    [][ InTakePVSnapshot =>
            \A n \in CallsOf("GetVolumeSnapshotter")' \cup CallsOf("Init")' :
                pvCalls'[n].loc \notin attempted ]_vars

\* C12 amended: a location is cached when, and only when, the getter and
\* Init both succeeded for it; the cache only grows; a cached location is
\* asked for volume IDs without a getter or Init call, so each location is
\* initialised successfully at most once in a run; a location whose getter
\* or Init failed is not cached and is tried again by the next call.
C12_OncePerInitialisedLocation ==
    [][ /\ snapshotters \subseteq snapshotters'
        /\ snapshotters' # snapshotters => InTakePVSnapshot
        /\ InTakePVSnapshot =>
              /\ \A n \in CallsOf("GetVolumeSnapshotter")' \cup CallsOf("Init")' :
                    pvCalls'[n].loc \notin snapshotters
              /\ \A l \in 1..NumLocations :
                    /\ Cardinality({n \in CallsOf("GetVolumeSnapshotter")' :
                                       pvCalls'[n].loc = l}) <= 1
                    /\ Cardinality({n \in CallsOf("Init")' : pvCalls'[n].loc = l}) <= 1
                    /\ l \in snapshotters' \ snapshotters
                          <=> \E n \in CallsOf("Init")' :
                                 pvCalls'[n].loc = l /\ pvCalls'[n].ret = "ok"
                    /\ (\E n \in CallsOf("GetVolumeID")' : pvCalls'[n].loc = l)
                          => l \in snapshotters'
      ]_vars

\* C12 witness: the second volume of the run was asked of the first
\* location's cached provider, without a getter or Init call, and snapshotted
C12_Witness ==
    /\ Len(VolumeSnapshots) = 2
    /\ \E n \in CallsOf("GetVolumeID") : pvCalls[n].loc = 1 /\ pvCalls[n].ret = "id"
    /\ \A n \in CallsOf("GetVolumeSnapshotter") \cup CallsOf("Init") : pvCalls[n].loc # 1
    /\ 1 \in snapshotters

-----------------------------------------------------------------------------
Next ==
    \/ BackupItemCall
    \/ Enter
    \/ PreHooks
    \/ ExecuteAction
    \/ FetchAdditional
    \/ ActionsDone
    \/ PostHooksAfterActionError
    \/ TakePVSnapshot
    \/ BackupPodVolumes
    \/ PostHooks
    \/ WriteItem
    \/ Return

Spec == Init /\ [][Next]_vars

\* a run over the cluster's persistent volumes
NextVolumes ==
    \/ BackupVolumeCall
    \/ Enter
    \/ PreHooks
    \/ ExecuteAction
    \/ FetchAdditional
    \/ ActionsDone
    \/ PostHooksAfterActionError
    \/ TakePVSnapshot
    \/ BackupPodVolumes
    \/ PostHooks
    \/ WriteItem
    \/ Return

SpecVolumes == Init /\ [][NextVolumes]_vars

-----------------------------------------------------------------------------
(* The restore controller *)

\* most backups a schedule's listing returns
MaxBackups == 3
\* most errors the restore engine reports
MaxErrors == 1
\* the deliveries of the key the history tells apart: none, one, more
MaxDeliveries == 2

\* the count of deliveries after one more
Delivered(n) == IF n < MaxDeliveries THEN n + 1 ELSE n

RestorePhaseNew == "New"
RestorePhaseFailedValidation == "FailedValidation"
RestorePhaseInProgress == "InProgress"
RestorePhaseFailed == "Failed"
RestorePhasePartiallyFailed == "PartiallyFailed"
RestorePhaseCompleted == "Completed"
BackupPhaseCompleted == "Completed"

\* names of the backups of a listing, by position
BackupNames == <<"b1", "b2", "b3", "b4", "b5">>
\* Status.StartTimestamp of a backup
StartTimes == {5, 10, 20}

\* what backupLister.List can return for a schedule
BackupLists ==
    UNION {[1..n -> [start : StartTimes, phase : {BackupPhaseCompleted, "Failed"}]] :
              n \in 0..MaxBackups}

\* the Restores a user creates: a backup name, a schedule name, include /
\* exclude lists that are valid or not, a status that is normally empty
CreatedRestores ==
    [phase : {"", RestorePhaseNew, RestorePhaseInProgress, RestorePhaseCompleted},
     backupName : {"", "b1"}, scheduleName : {"", "s1"},
     invalid : {{}, {"nonrestorable"}, {"resources", "namespaces"}},
     validationErrors : {<<>>}, errors : {0}, failureReason : {""}]

\* mutant: every phase is processed
AnyPhase(phase) == TRUE

\* the switch on Status.Phase of the add handler and of processQueueItem
IsNewPhase(phase) == phase \in {"", RestorePhaseNew}

Call(c) == [call |-> c, ret |-> "ok"]
CallErr(c) == [call |-> c, ret |-> "err"]

\* a restore controller with one Restore in the API, not yet seen by the informer
InitRestores ==
    /\ InitBackup
    /\ apiRestore \in CreatedRestores
    /\ listed = NoRestore
    /\ queue = FALSE
    /\ rc = Idle
    /\ calls = <<>>
    /\ persisted = <<>>
    /\ history = NoHistory
    /\ InitNoDeletion

\* the informer delivers the Restore to the add handler
AddFunc ==
    /\ listed = NoRestore
    /\ listed' = apiRestore
    /\ queue' = IsNewPhase(apiRestore.phase)
    /\ UNCHANGED <<apiRestore, rc, calls, persisted, history>>
    /\ UNCHANGED <<backupVars, deletionVars>>

\* the informer cache catches up with the API server
InformerUpdate ==
    /\ listed # NoRestore
    /\ listed # apiRestore
    /\ listed' = apiRestore
    /\ UNCHANGED <<apiRestore, queue, rc, calls, persisted, history>>
    /\ UNCHANGED <<backupVars, deletionVars>>

\* the worker takes the key: processQueueItem up to the call of processRestore
ProcessQueueItem ==
    /\ queue
    /\ rc.pc = "idle"
    /\ queue' = FALSE
    /\ calls' = <<>>
    /\ \E getOk \in BOOLEAN :
          rc' = IF ~getOk THEN [Idle EXCEPT !.pc = "return", !.result = "err"]
                ELSE IF ~IsNewPhase(listed.phase)
                THEN [Idle EXCEPT !.pc = "return", !.result = "nil"]
                ELSE [Idle EXCEPT !.pc = "validate", !.restore = listed,
                                  !.original = listed]
    /\ history' = [history EXCEPT !.deliveries = Delivered(@)]
    /\ UNCHANGED <<apiRestore, listed, persisted>>
    /\ UNCHANGED <<backupVars, deletionVars>>

\* the messages of the include / exclude validations of validateAndComplete
ListErrors(invalid) ==
    (IF "nonrestorable" \in invalid THEN <<"non-restorable resources">> ELSE <<>>)
    \o (IF "resources" \in invalid
        THEN <<"Invalid included/excluded resource lists">> ELSE <<>>)
    \o (IF "namespaces" \in invalid
        THEN <<"Invalid included/excluded namespace lists">> ELSE <<>>)

XorMessage ==
    "Either a backup or schedule must be specified as a source for the restore, but not both"

\* mutant: only a restore that names neither is rejected
BackupOrScheduleProvided(restore) ==
    ~(restore.backupName = "" /\ restore.scheduleName = "")

backupXorScheduleProvided(restore) ==
    IF restore.backupName # "" /\ restore.scheduleName # "" THEN FALSE
    ELSE IF restore.backupName = "" /\ restore.scheduleName = "" THEN FALSE
    ELSE TRUE

\* the orders sort.Slice can leave the backups in: descending start time,
\* equal start times in any order (the sort is not stable)
SortedOrders(backups) ==
    LET n == Len(backups) IN
    {o \in Permutations(1..n) :
        \A i \in 1..n, j \in 1..n : i < j => backups[o[i]].start >= backups[o[j]].start}

\* the first Completed backup of a sorted list, by its position in the
\* listing; 0 for nil
FirstCompleted(backups, o) ==
    LET C == {i \in 1..Len(backups) : backups[o[i]].phase = BackupPhaseCompleted}
    IN IF C = {} THEN 0 ELSE o[CHOOSE i \in C : \A j \in C : i <= j]

\* mutant: the most recent backup, whatever its phase
mostRecentBackup(backups) ==
    {IF Len(backups) = 0 THEN 0 ELSE o[1] : o \in SortedOrders(backups)}

\* what mostRecentCompletedBackup can return
mostRecentCompletedBackup(backups) ==
    {FirstCompleted(backups, o) : o \in SortedOrders(backups)}

\* validateAndComplete: the restore it leaves, the lister / backup store
\* calls it made, and the listing it used
validateAndComplete(restore, listOk, backups, chosen, fetchOk, label) ==
    LET errs == restore.validationErrors \o ListErrors(restore.invalid)
        sched == restore.scheduleName # ""
        name == IF sched THEN BackupNames[chosen] ELSE restore.backupName
        list == IF sched THEN <<Call("ListBackups")>> ELSE <<>>
    IN IF ~backupXorScheduleProvided(restore)
       THEN [restore |-> [restore EXCEPT !.validationErrors = Append(errs, XorMessage)],
             calls |-> <<>>, listing |-> <<>>]
       ELSE IF sched /\ ~listOk
       THEN [restore |-> [restore EXCEPT !.validationErrors =
                              Append(errs, "Unable to list backups for schedule")],
             calls |-> <<CallErr("ListBackups")>>, listing |-> <<>>]
       ELSE IF sched /\ chosen = 0
       THEN [restore |-> [restore EXCEPT !.validationErrors =
                              errs \o (IF Len(backups) = 0
                                       THEN <<"No backups found for schedule">> ELSE <<>>)
                                   \o <<"No completed backups found for schedule">>],
             calls |-> list, listing |-> backups]
       ELSE IF ~fetchOk
       THEN [restore |-> [restore EXCEPT !.backupName = name,
                                         !.validationErrors =
                                             Append(errs, "Error retrieving backup")],
             calls |-> Append(list, CallErr("fetchBackupInfo")),
             listing |-> IF sched THEN backups ELSE <<>>]
       ELSE [restore |-> [restore EXCEPT !.backupName = name,
                                         !.scheduleName = IF sched THEN @ ELSE label],
             calls |-> Append(list, Call("fetchBackupInfo")),
             listing |-> IF sched THEN backups ELSE <<>>]

\* mutant: the restore goes on whatever the validation found
PhaseAfterValidationInProgress(validationErrors) == RestorePhaseInProgress

\* the phase processRestore sets after validation
PhaseAfterValidation(validationErrors) ==
    IF Len(validationErrors) > 0 THEN RestorePhaseFailedValidation
    ELSE RestorePhaseInProgress

\* validateAndComplete asks the lister for the schedule's backups
ListsBackups(restore) ==
    backupXorScheduleProvided(restore) /\ restore.scheduleName # ""

\* validateAndComplete reaches fetchBackupInfo
FetchesBackup(restore, listOk, chosen) ==
    /\ backupXorScheduleProvided(restore)
    /\ restore.scheduleName # "" => (listOk /\ chosen # 0)

\* processRestore: validation with its own plugin manager, then the phase;
\* an answer is drawn for the collaborators that are asked only
ValidateAndComplete ==
    /\ rc.pc = "validate"
    /\ \E listOk \in IF ListsBackups(rc.restore) THEN BOOLEAN ELSE {TRUE} :
       \E backups \in IF ListsBackups(rc.restore) /\ listOk THEN BackupLists ELSE {<<>>} :
       \E chosen \in mostRecentCompletedBackup(backups) :
       \E fetchOk \in IF FetchesBackup(rc.restore, listOk, chosen) THEN BOOLEAN ELSE {TRUE} :
       \E label \in IF FetchesBackup(rc.restore, listOk, chosen) /\ fetchOk
                        /\ rc.restore.scheduleName = ""
                     THEN {"", "s1"} ELSE {""} :
            LET v == validateAndComplete(rc.restore, listOk, backups, chosen, fetchOk, label)
            IN /\ rc' = [rc EXCEPT !.restore =
                                       [v.restore EXCEPT !.phase =
                                           PhaseAfterValidation(v.restore.validationErrors)],
                                   !.listing = v.listing,
                                   !.pc = "patch"]
               /\ calls' = <<Call("NewPluginManager")>> \o v.calls
                              \o <<Call("CleanupClients")>>
    /\ UNCHANGED <<apiRestore, listed, queue, persisted, history>>
    /\ UNCHANGED <<backupVars, deletionVars>>

\* mutant: the patch is built but not applied
MergePatchDropped(server, original, updated) == server

\* the object after the server applied the JSON merge patch of original -> updated
MergePatch(server, original, updated) ==
    [f \in DOMAIN server |-> IF updated[f] # original[f] THEN updated[f] ELSE server[f]]

\* processRestore: the patch that persists FailedValidation or InProgress
PatchPhase ==
    /\ rc.pc = "patch"
    /\ \E ok \in BOOLEAN :
        IF ok
        THEN LET updatedRestore == MergePatch(apiRestore, rc.original, rc.restore) IN
             /\ apiRestore' = updatedRestore
             /\ persisted' = Append(persisted, updatedRestore.phase)
             /\ calls' = Append(calls, Call("Patch"))
             /\ rc' = [rc EXCEPT !.original = updatedRestore,
                                 !.restore = updatedRestore,
                                 !.patched = TRUE,
                                 !.listing = <<>>,
                                 !.pc = IF updatedRestore.phase = RestorePhaseFailedValidation
                                        THEN "return" ELSE "run",
                                 !.result = IF updatedRestore.phase = RestorePhaseFailedValidation
                                            THEN "nil" ELSE @]
             /\ UNCHANGED history
        ELSE /\ calls' = Append(calls, CallErr("Patch"))
             /\ rc' = [rc EXCEPT !.listing = <<>>, !.pc = "return", !.result = "err"]
             /\ history' = [history EXCEPT !.patchFailed = TRUE]
             /\ UNCHANGED <<apiRestore, persisted>>
    /\ UNCHANGED <<listed, queue>>
    /\ UNCHANGED <<backupVars, deletionVars>>

\* how far runValidatedRestore gets: no restore logger, no plugin actions, no
\* backup file, no volume snapshot metadata, or the restore engine has run
RunOutcomes ==
    {"loggerErr", "actionsErr", "downloadErr", "copyErr", "seekErr", "snapshotsErr", "ran"}

\* the outcomes in which downloadToTempFile returns an error: the backup's
\* contents or the temp file cannot be had, the copy fails, the seek fails
DownloadErrors == {"downloadErr", "copyErr", "seekErr"}

\* the temp files runValidatedRestore has created on its way to the outcome:
\* the log file of newRestoreLogger, the backup file of downloadToTempFile
TempFilesCreated(outcome) ==
    (IF outcome # "loggerErr" THEN {"log"} ELSE {})
    \cup (IF outcome \in {"copyErr", "seekErr", "snapshotsErr", "ran"}
          THEN {"backup"} ELSE {})

\* the temp files the deferred calls close and remove
TempFilesRemoved(deferred) ==
    {"log" : n \in {m \in 1..Len(deferred) : deferred[m].call = "closeAndRemove"}}
    \cup {"backup" : n \in {m \in 1..Len(deferred) : deferred[m].call = "closeAndRemoveFile"}}

\* the number of calls of restorer.Restore on the way to the outcome
Engine(outcome) == IF outcome = "ran" THEN 1 ELSE 0

\* mutant: the plugin manager is cleaned up only when the restore has run
DeferredCallsOnSuccess(outcome) ==
    IF outcome = "ran"
    THEN <<Call("closeAndRemoveFile"), Call("CleanupClients"), Call("closeAndRemove")>>
    ELSE <<>>

\* the deferred calls of runValidatedRestore, in the order they run
DeferredCalls(outcome) ==
    CASE outcome = "loggerErr" -> <<>>
      [] outcome \in {"actionsErr"} \cup DownloadErrors ->
            <<Call("CleanupClients"), Call("closeAndRemove")>>
      [] OTHER ->
            <<Call("closeAndRemoveFile"), Call("CleanupClients"), Call("closeAndRemove")>>

\* the calls of runValidatedRestore before its deferred calls
RunCalls(outcome, doneOk, logOk, resultsOk) ==
    LET ret(c, ok) == IF ok THEN Call(c) ELSE CallErr(c)
        all == <<ret("newRestoreLogger", outcome # "loggerErr"),
                 Call("NewPluginManager"),
                 ret("GetRestoreItemActions", outcome # "actionsErr"),
                 ret("downloadToTempFile", outcome \notin DownloadErrors),
                 ret("GetBackupVolumeSnapshots", outcome # "snapshotsErr"),
                 Call("Restore"),
                 ret("done", doneOk)>>
        upto == CASE outcome = "loggerErr" -> 1
                  [] outcome = "actionsErr" -> 3
                  [] outcome \in DownloadErrors -> 4
                  [] outcome = "snapshotsErr" -> 5
                  [] OTHER -> 7
    IN SubSeq(all, 1, upto)
       \o (IF outcome = "ran" /\ doneOk THEN <<ret("PutRestoreLog", logOk)>> ELSE <<>>)
       \o (IF outcome = "ran" THEN <<ret("PutRestoreResults", resultsOk)>> ELSE <<>>)

\* mutant: only the errors of the restore engine are counted
ErrorCountOfEngine(n, doneOk, logOk) == n

\* the call sequence with the entries the per-restore log gets written: the
\* "restore completed" line after the engine returns, and whatever the plugin
\* manager, which logs to the per-restore log, writes while it cleans up
LogWrites(cs, cleanupLogs) ==
    LET RECURSIVE Ins(_)
        Ins(n) ==
            IF n > Len(cs) THEN <<>>
            ELSE <<cs[n]>>
                 \o (IF cs[n].call = "Restore"
                        \/ (cs[n].call = "CleanupClients" /\ cleanupLogs)
                     THEN <<Call("Log")>> ELSE <<>>)
                 \o Ins(n + 1)
    IN Ins(1)

\* Status.Errors after the restore engine reported n errors
ErrorCount(n, doneOk, logOk) == n + (IF doneOk /\ logOk THEN 0 ELSE 1)

\* processRestore calls runValidatedRestore
RunValidatedRestore ==
    /\ rc.pc = "run"
    /\ \E outcome \in RunOutcomes, n \in 0..MaxErrors,
          doneOk \in BOOLEAN, logOk \in BOOLEAN, resultsOk \in BOOLEAN,
          cleanupLogs \in BOOLEAN :
        /\ outcome # "ran" => (n = 0 /\ doneOk /\ logOk /\ resultsOk)
        /\ ~doneOk => logOk
        /\ outcome = "loggerErr" => ~cleanupLogs
        /\ calls' = calls \o LogWrites(RunCalls(outcome, doneOk, logOk, resultsOk)
                                          \o DeferredCalls(outcome), cleanupLogs)
        /\ history' = [history EXCEPT
                            !.restored = @ + Engine(outcome),
                            !.tempFiles = @ \cup (TempFilesCreated(outcome)
                                                    \ TempFilesRemoved(DeferredCalls(outcome)))]
        /\ rc' = [rc EXCEPT !.ran = outcome,
                            !.reported = n,
                            !.restore.errors = IF outcome = "ran"
                                               THEN ErrorCount(n, doneOk, logOk) ELSE @,
                            !.pc = "final"]
    /\ UNCHANGED <<apiRestore, listed, queue, persisted>>
    /\ UNCHANGED <<backupVars, deletionVars>>

\* mutant: a restore with errors counts as completed
FinalPhaseIgnoringErrors(runErr, errors) ==
    IF runErr THEN RestorePhaseFailed ELSE RestorePhaseCompleted

\* the final phase processRestore computes
FinalPhase(runErr, errors) ==
    IF runErr THEN RestorePhaseFailed
    ELSE IF errors > 0 THEN RestorePhasePartiallyFailed
    ELSE RestorePhaseCompleted

\* mutant: the error of the final patch is returned
ResultOfFinalPatchReturned(ok) == IF ok THEN "nil" ELSE "err"

\* what processRestore returns after the final patch
ResultOfFinalPatch(ok) == "nil"

\* processRestore: the final phase and the patch that persists it
PatchFinalStatus ==
    /\ rc.pc = "final"
    /\ LET runErr == rc.ran # "ran"
           final == [rc.restore EXCEPT !.phase = FinalPhase(runErr, rc.restore.errors),
                                       !.failureReason = IF runErr THEN rc.ran ELSE @]
       IN \E ok \in BOOLEAN :
            /\ IF ok
               THEN /\ apiRestore' = MergePatch(apiRestore, rc.original, final)
                    /\ persisted' = Append(persisted, apiRestore'.phase)
               ELSE UNCHANGED <<apiRestore, persisted>>
            /\ calls' = Append(calls, IF ok THEN Call("Patch") ELSE CallErr("Patch"))
            /\ rc' = [rc EXCEPT !.restore = final,
                                !.finalPatch = IF ok THEN "ok" ELSE "err",
                                !.pc = "return",
                                !.result = ResultOfFinalPatch(ok)]
    /\ UNCHANGED <<listed, queue, history>>
    /\ UNCHANGED <<backupVars, deletionVars>>

\* mutant: no result puts the key back
RequeueNever(result) == FALSE

\* an error returned by processQueueItem puts the key back on the queue
Requeue(result) == result = "err"

\* the worker is done with the key
Reconciled ==
    /\ rc.pc = "return"
    /\ rc' = [rc EXCEPT !.pc = "idle"]
    /\ queue' = (queue \/ Requeue(rc.result))
    /\ UNCHANGED <<apiRestore, listed, calls, persisted, history>>
    /\ UNCHANGED <<backupVars, deletionVars>>

NextRestores ==
    \/ AddFunc
    \/ InformerUpdate
    \/ ProcessQueueItem
    \/ ValidateAndComplete
    \/ PatchPhase
    \/ RunValidatedRestore
    \/ PatchFinalStatus
    \/ Reconciled

SpecRestores == InitRestores /\ [][NextRestores]_vars

\* the steps of the worker goroutine
Worker ==
    \/ ProcessQueueItem
    \/ ValidateAndComplete
    \/ PatchPhase
    \/ RunValidatedRestore
    \/ PatchFinalStatus
    \/ Reconciled

\* the worker goroutine loops: it takes a queued key and finishes each step
SpecRestoresFair == SpecRestores /\ WF_vars(Worker)

-----------------------------------------------------------------------------
(* Properties of the restore controller *)

TerminalPhases ==
    {RestorePhaseFailedValidation, RestorePhaseFailed, RestorePhasePartiallyFailed,
     RestorePhaseCompleted}

\* the calls of one collaborator method in a call sequence
CallsIn(cs, c) == {n \in 1..Len(cs) : cs[n].call = c}
NumCalls(c) == Cardinality(CallsIn(calls, c))

\* the messages of a list of validation errors
Messages(errs) == {errs[n] : n \in 1..Len(errs)}

\* the restore names both a backup and a schedule, or neither
BothOrNeither(restore) ==
    (restore.backupName # "") = (restore.scheduleName # "")

\* no call of the execution of a restore has been made
NoExecution ==
    \A n \in 1..Len(calls) :
        calls[n].call \notin {"newRestoreLogger", "GetRestoreItemActions",
                              "downloadToTempFile", "GetBackupVolumeSnapshots",
                              "Restore", "done", "PutRestoreLog", "PutRestoreResults"}

\* C13: the persisted phase of a Restore changes only from New (or the empty
\* phase of a Restore just created) to FailedValidation or InProgress, and
\* from InProgress to Failed, PartiallyFailed or Completed; a persisted
\* FailedValidation, Failed, PartiallyFailed or Completed never changes.
C13_PhaseTransitions ==
    [][ apiRestore'.phase # apiRestore.phase =>
          \/ /\ apiRestore.phase \in {"", RestorePhaseNew}
             /\ apiRestore'.phase \in {RestorePhaseFailedValidation, RestorePhaseInProgress}
          \/ /\ apiRestore.phase = RestorePhaseInProgress
             /\ apiRestore'.phase \in {RestorePhaseFailed, RestorePhasePartiallyFailed,
                                       RestorePhaseCompleted}
      ]_vars

\* C13 witness: a Restore went New -> InProgress -> Failed and the worker is idle
C13_Witness ==
    /\ persisted = <<RestorePhaseInProgress, RestorePhaseFailed>>
    /\ apiRestore.phase = RestorePhaseFailed
    /\ rc.pc = "idle"

\* C14 as stated: a reconciliation that found a validation error has patched
\* the Restore once, to FailedValidation, has made no execution call, and
\* returns nil.
C14_ValidationErrorReturnsNil ==
    (rc.pc = "return" /\ rc.restore.validationErrors # <<>>) =>
        /\ rc.result = "nil"
        /\ apiRestore.phase = RestorePhaseFailedValidation
        /\ persisted = <<RestorePhaseFailedValidation>>
        /\ NoExecution

\* C14 amended: a reconciliation that found a validation error sets
\* FailedValidation, makes one patch call and no execution call; if the patch
\* succeeds the Restore is persisted FailedValidation straight from New, nil
\* is returned and the key is not re-queued; if the patch fails the Restore
\* is still New and the error is returned.
C14_ValidationErrorHalts ==
    /\ (rc.pc \in {"patch", "return"} /\ rc.restore.validationErrors # <<>>) =>
          /\ rc.restore.phase = RestorePhaseFailedValidation
          /\ rc.ran = "none"
          /\ NoExecution
    /\ (rc.pc = "return" /\ rc.restore.validationErrors # <<>>) =>
          /\ NumCalls("Patch") = 1
          /\ IF rc.patched
             THEN /\ rc.result = "nil"
                  /\ apiRestore.phase = RestorePhaseFailedValidation
                  /\ persisted = <<RestorePhaseFailedValidation>>
             ELSE /\ rc.result = "err"
                  /\ apiRestore.phase \in {"", RestorePhaseNew}
                  /\ persisted = <<>>
    /\ apiRestore.phase = RestorePhaseFailedValidation =>
          /\ ~queue
          /\ rc.pc \in {"return", "idle"}
          /\ rc.result = "nil"

\* C14 witness: two validation errors, the patch succeeded, nil is returned
C14_Witness ==
    /\ rc.pc = "return"
    /\ rc.patched
    /\ rc.result = "nil"
    /\ Len(rc.restore.validationErrors) = 2
    /\ apiRestore.phase = RestorePhaseFailedValidation

\* C15: validation of a Restore that names both a backup and a schedule, or
\* neither, adds the message, sets FailedValidation and neither lists nor
\* fetches a backup; the only phase such a Restore is persisted with is
\* FailedValidation, and no Restore is persisted InProgress unless it named
\* exactly one of the two.
C15_BackupXorSchedule ==
    [][ /\ (rc.pc = "validate" /\ rc'.pc = "patch" /\ BothOrNeither(rc.restore)) =>
              /\ rc'.restore.phase = RestorePhaseFailedValidation
              /\ XorMessage \in Messages(rc'.restore.validationErrors)
              /\ CallsIn(calls', "ListBackups") = {}
              /\ CallsIn(calls', "fetchBackupInfo") = {}
        /\ (rc.pc = "patch" /\ rc'.pc # "patch" /\ BothOrNeither(rc.original)) =>
              /\ rc'.pc = "return"
              /\ apiRestore' # apiRestore =>
                    /\ apiRestore'.phase = RestorePhaseFailedValidation
                    /\ XorMessage \in Messages(apiRestore'.validationErrors)
        /\ (apiRestore'.phase = RestorePhaseInProgress /\ apiRestore.phase # RestorePhaseInProgress)
              => ~BothOrNeither(rc.original)
      ]_vars

\* C15 witness: a Restore naming both is persisted FailedValidation with the message
C15_Witness ==
    /\ apiRestore.backupName = "b1"
    /\ apiRestore.scheduleName = "s1"
    /\ apiRestore.phase = RestorePhaseFailedValidation
    /\ apiRestore.validationErrors = <<XorMessage>>

\* C16: validation of a Restore that names a schedule, for every listing of
\* the schedule's backups in every order, resolves the backup name to a
\* Completed backup that no Completed backup of the listing started after;
\* when the listing has no Completed backup the Restore fails validation.
C16_MostRecentCompleted ==
    [][ (/\ rc.pc = "validate"
         /\ rc'.pc = "patch"
         /\ rc.restore.scheduleName # ""
         /\ rc.restore.backupName = ""
         /\ \E n \in CallsIn(calls', "ListBackups") : calls'[n].ret = "ok") =>
           LET bs == rc'.listing
               C == {i \in 1..Len(bs) : bs[i].phase = BackupPhaseCompleted}
           IN IF C = {}
              THEN /\ "No completed backups found for schedule"
                          \in Messages(rc'.restore.validationErrors)
                   /\ rc'.restore.phase = RestorePhaseFailedValidation
                   /\ rc'.restore.backupName = ""
              ELSE \E i \in C :
                      /\ rc'.restore.backupName = BackupNames[i]
                      /\ \A j \in C : bs[i].start >= bs[j].start
      ]_vars

\* C16 witness: of the backups started at 10 (Completed), 20 (Failed) and
\* 5 (Completed), the one started at 10 is chosen
C16_Witness ==
    /\ rc.pc = "patch"
    /\ rc.listing = <<[start |-> 10, phase |-> BackupPhaseCompleted],
                      [start |-> 20, phase |-> "Failed"],
                      [start |-> 5, phase |-> BackupPhaseCompleted]>>
    /\ rc.restore.backupName = "b1"
    /\ rc.restore.phase = RestorePhaseInProgress

\* C17: the final phase of a Restore that reached InProgress is Failed
\* exactly when runValidatedRestore returned an error, otherwise
\* PartiallyFailed exactly when Status.Errors > 0, otherwise Completed; the
\* final patch persists that phase or nothing.
C17_FinalPhase ==
    [][ (rc.pc = "final" /\ rc'.pc = "return") =>
          /\ rc'.restore.phase =
                IF rc.ran # "ran" THEN RestorePhaseFailed
                ELSE IF rc.restore.errors > 0 THEN RestorePhasePartiallyFailed
                ELSE RestorePhaseCompleted
          /\ IF rc'.finalPatch = "ok"
             THEN apiRestore'.phase = rc'.restore.phase
             ELSE apiRestore' = apiRestore
      ]_vars

\* C17 witness: the engine ran and reported an error: PartiallyFailed is persisted
C17_Witness ==
    /\ rc.pc = "return"
    /\ rc.ran = "ran"
    /\ rc.restore.errors > 0
    /\ apiRestore.phase = RestorePhasePartiallyFailed

\* C18: once the patch to InProgress or FailedValidation has succeeded,
\* processRestore returns nil whatever happens next, and the key is not put
\* back on the queue.
C18_NilAfterFirstPatch ==
    (rc.patched /\ rc.pc \in {"return", "idle"}) =>
        /\ rc.result = "nil"
        /\ ~queue

\* C18 witness: the execution failed, the final patch failed, nil was returned
C18_Witness ==
    /\ rc.pc = "idle"
    /\ rc.patched
    /\ rc.ran = "snapshotsErr"
    /\ rc.finalPatch = "err"
    /\ rc.result = "nil"
    /\ ~queue

\* C19 as stated, for the runs that end: when the worker is idle and the
\* queue is empty, a Restore whose processing was started (its first patch
\* was persisted) has a terminal phase.
C19_ProcessedMeansTerminal ==
    (rc.pc = "idle" /\ ~queue /\ persisted # <<>>) => apiRestore.phase \in TerminalPhases

\* C19 amended: a terminal phase is persisted at most once; under a fair
\* worker a queued key is taken, and a Restore whose first patch was
\* persisted ends with a terminal phase, or, when the final patch failed,
\* stays InProgress with the worker idle; a failed first patch puts the key
\* back on the queue.
C19_TerminalUnlessFinalPatchFails ==
    /\ [](Cardinality({n \in 1..Len(persisted) : persisted[n] \in TerminalPhases}) <= 1)
    /\ [](\A n \in 1..Len(persisted) :
             persisted[n] \in TerminalPhases => n = Len(persisted))
    /\ (persisted # <<>>) ~>
          \/ apiRestore.phase \in TerminalPhases
          \/ /\ rc.pc = "idle" /\ ~queue
             /\ rc.finalPatch = "err"
             /\ apiRestore.phase = RestorePhaseInProgress
    /\ queue ~> ~queue
    /\ (rc.pc = "return" /\ rc.result = "err") ~> queue

\* C19 witness: a Restore went New -> InProgress -> Completed, nothing is left to do
C19_Witness ==
    /\ persisted = <<RestorePhaseInProgress, RestorePhaseCompleted>>
    /\ apiRestore.phase = RestorePhaseCompleted
    /\ rc.pc = "idle"
    /\ ~queue
    /\ listed = apiRestore

\* C20 as stated: the validation makes one CleanupClients call, and every
\* runValidatedRestore call makes one more.
C20_CleanupPerCycle ==
    /\ rc.pc \in {"patch", "run"} => NumCalls("CleanupClients") = 1
    /\ rc.ran # "none" => NumCalls("CleanupClients") = 2

\* C20 amended: every plugin manager that is created is cleaned up, before
\* the next one is created and before processRestore goes on: one for the
\* validation, and one for every runValidatedRestore call that got its
\* restore logger; a call that fails to create the logger creates no plugin
\* manager and cleans none up.
C20_CleanupPerPluginManager ==
    /\ NumCalls("CleanupClients") = NumCalls("NewPluginManager")
    /\ \A m, n \in CallsIn(calls, "NewPluginManager") :
          m < n => \E k \in CallsIn(calls, "CleanupClients") : m < k /\ k < n
    /\ \A m \in CallsIn(calls, "NewPluginManager") :
          \E k \in CallsIn(calls, "CleanupClients") : m < k
    /\ rc.pc \in {"patch", "run"} => NumCalls("CleanupClients") = 1
    /\ rc.ran # "none" =>
          NumCalls("CleanupClients") = IF rc.ran = "loggerErr" THEN 1 ELSE 2

\* C20 witness: the download failed and the second plugin manager was cleaned up
C20_Witness ==
    /\ rc.pc = "final"
    /\ rc.ran = "downloadErr"
    /\ NumCalls("CleanupClients") = 2
    /\ calls[Len(calls) - 1] = Call("CleanupClients")

\* a call of the collaborator method c returned an error
Failed(c) == \E n \in CallsIn(calls, c) : calls[n].ret = "err"

\* C21 as stated: after a restore that ran, whatever the log upload, the
\* results upload and the final patch did, nil is returned, Status.Errors is
\* the number of errors the execution reported, and the final phase is the
\* one that number decides.
C21_SideEffectsSwallowed ==
    (rc.ran = "ran" /\ rc.pc \in {"final", "return"}) =>
        /\ rc.restore.errors = rc.reported
        /\ rc.pc = "return" =>
              /\ rc.result = "nil"
              /\ rc.restore.phase = IF rc.reported > 0 THEN RestorePhasePartiallyFailed
                                    ELSE RestorePhaseCompleted

\* C21 amended: a failure of the results upload or of the final patch
\* changes neither the result (nil), nor Status.Errors, nor the final phase;
\* a failure to seal or to upload the log is not returned either, but adds
\* one to Status.Errors, and the final phase is decided by that count.
C21_LogFailureCounted ==
    (rc.ran = "ran" /\ rc.pc \in {"final", "return"}) =>
        /\ rc.restore.errors =
              rc.reported + (IF Failed("done") \/ Failed("PutRestoreLog") THEN 1 ELSE 0)
        /\ rc.pc = "return" =>
              /\ rc.result = "nil"
              /\ rc.restore.phase = IF rc.restore.errors > 0 THEN RestorePhasePartiallyFailed
                                    ELSE RestorePhaseCompleted

\* C21 witness: the engine reported no error, the log upload, the results
\* upload and the final patch all failed: PartiallyFailed with one error
C21_Witness ==
    /\ rc.pc = "return"
    /\ rc.ran = "ran"
    /\ rc.reported = 0
    /\ Failed("PutRestoreLog")
    /\ Failed("PutRestoreResults")
    /\ rc.finalPatch = "err"
    /\ rc.restore.errors = 1
    /\ rc.restore.phase = RestorePhasePartiallyFailed
    /\ rc.result = "nil"

\* C22: in the calls of a runValidatedRestore call the log is sealed after
\* the restore engine returned and before the log is uploaded, the results
\* are uploaded after the log, and nothing is written to the log after it
\* was sealed, the deferred cleanups included.
C22_NoWriteAfterSealed ==
    \A d \in CallsIn(calls, "done") :
        /\ \E e \in CallsIn(calls, "Restore") : e < d
        /\ \A u \in CallsIn(calls, "PutRestoreLog") : d < u
        /\ \A r \in CallsIn(calls, "PutRestoreResults") :
              /\ d < r
              /\ \A u \in CallsIn(calls, "PutRestoreLog") : u < r
        /\ \A w \in CallsIn(calls, "Log") : w < d

-----------------------------------------------------------------------------
(* The backup deletion controller *)

DeleteBackupRequestPhaseNew == "New"
DeleteBackupRequestPhaseInProgress == "InProgress"
DeleteBackupRequestPhaseProcessed == "Processed"
BackupPhaseNew == "New"
BackupPhaseInProgress == "InProgress"
BackupPhaseDeleting == "Deleting"

\* the request the worker reconciles, and the backup it names
Key == "foo-abcde"
BackupName == "foo"

BackupNameLabel(name) == <<"velero.io/backup-name", name>>
BackupUIDLabel == <<"velero.io/backup-uid", "uid">>

\* the DeleteBackupRequests a user creates for the backup (NewDeleteBackupRequest
\* sets both labels), or leaves behind without a backup name or without labels
CreatedRequests ==
    [phase : {"", DeleteBackupRequestPhaseNew, DeleteBackupRequestPhaseInProgress,
              DeleteBackupRequestPhaseProcessed},
     backupName : {BackupName},
     labels : {{}, {BackupNameLabel(BackupName), BackupUIDLabel}},
     errors : {<<>>}, created : {Now}]
    \cup
    [phase : {"", DeleteBackupRequestPhaseNew, DeleteBackupRequestPhaseInProgress,
              DeleteBackupRequestPhaseProcessed},
     backupName : {""}, labels : {{}}, errors : {<<>>}, created : {Now}]

\* the other requests: "bar" for the same backup, "bar-2" for another one
OtherRequest(n) ==
    IF n = "bar"
    THEN [phase |-> "", backupName |-> BackupName,
          labels |-> {BackupNameLabel(BackupName)}, errors |-> <<>>, created |-> Now]
    ELSE [phase |-> "", backupName |-> "some-other-backup",
          labels |-> {BackupNameLabel("some-other-backup")}, errors |-> <<>>,
          created |-> Now]

\* the restores of the cluster: two of the backup, one of another backup
RestoresOfBackup == {"restore-1", "restore-2"}
OtherRestores == {"restore-3"}

\* the backup does not exist, has not run yet, is running, or is complete
\* with its artifacts; its storage location is missing, read-only or writable
Clusters ==
    [backup : {"none", BackupPhaseNew, BackupPhaseInProgress},
     location : {"missing", "readonly", "rw"},
     snapshots : {{}}, restic : {FALSE}, restores : {OtherRestores},
     restoreFiles : {{}}, contents : {FALSE}]
    \cup
    [backup : {BackupPhaseCompleted},
     location : {"missing", "readonly", "rw"},
     snapshots : {{"snap-1"}}, restic : BOOLEAN,
     restores : {RestoresOfBackup \cup OtherRestores},
     restoreFiles : {RestoresOfBackup}, contents : {TRUE}]

\* a backup deletion controller with its requests in the API, not yet seen by
\* the informer
InitDeletion ==
    /\ InitBackup
    /\ InitNoRestore
    /\ \E r \in CreatedRequests, others \in BOOLEAN :
          dbrs = [n \in RequestNames |->
                     IF n = Key THEN r
                     ELSE IF others THEN OtherRequest(n) ELSE NoRequest]
    /\ dbrLister = [n \in RequestNames |-> NoRequest]
    /\ dqueue = FALSE
    /\ dc = DIdle
    /\ dcalls = <<>>
    /\ cluster \in Clusters
    /\ backupTracker = IF cluster.backup = BackupPhaseInProgress THEN {BackupName} ELSE {}
    /\ clock = Now

DCall(verb, resource, name) ==
    [verb |-> verb, resource |-> resource, name |-> name, ret |-> "ok"]
DCallErr(verb, resource, name) ==
    [verb |-> verb, resource |-> resource, name |-> name, ret |-> "err"]
DRet(ok, verb, resource, name) ==
    IF ok THEN DCall(verb, resource, name) ELSE DCallErr(verb, resource, name)

\* the informer delivers the requests; the add handler enqueues the key
DAddFunc ==
    /\ dbrLister[Key] = NoRequest
    /\ dbrs[Key] # NoRequest
    /\ dbrLister' = dbrs
    /\ dqueue' = TRUE
    /\ UNCHANGED <<dbrs, dc, dcalls, backupTracker, cluster>>
    /\ UNCHANGED <<backupVars, restoreVars, clock>>

\* the informer cache catches up with the API server
DInformerUpdate ==
    /\ dbrLister[Key] # NoRequest
    /\ dbrLister # dbrs
    /\ dbrLister' = dbrs
    /\ UNCHANGED <<dbrs, dqueue, dc, dcalls, backupTracker, cluster>>
    /\ UNCHANGED <<backupVars, restoreVars, clock>>

\* the backup controller starts the run of the backup: BackupTracker.Add
BackupStart ==
    /\ cluster.backup = BackupPhaseNew
    /\ cluster' = [cluster EXCEPT !.backup = BackupPhaseInProgress]
    /\ backupTracker' = backupTracker \cup {BackupName}
    /\ UNCHANGED <<dbrs, dbrLister, dqueue, dc, dcalls>>
    /\ UNCHANGED <<backupVars, restoreVars, clock>>

\* the run of the backup ends: BackupTracker.Delete
BackupEnd ==
    /\ BackupName \in backupTracker
    /\ backupTracker' = backupTracker \ {BackupName}
    /\ cluster' = IF cluster.backup = BackupPhaseInProgress
                  THEN [cluster EXCEPT !.backup = BackupPhaseCompleted,
                                       !.snapshots = {"snap-1"},
                                       !.contents = TRUE]
                  ELSE cluster
    /\ UNCHANGED <<dbrs, dbrLister, dqueue, dc, dcalls>>
    /\ UNCHANGED <<backupVars, restoreVars, clock>>

\* mutant: a processed request is handed to processRequest like any other
NeverProcessed(req) == FALSE

\* processQueueItem skips a request that is already Processed
IsProcessed(req) == req.phase = DeleteBackupRequestPhaseProcessed

\* the worker takes the key: processQueueItem up to the call of processRequest
DProcessQueueItem ==
    /\ dqueue
    /\ dc.pc = "idle"
    /\ dqueue' = FALSE
    /\ dcalls' = <<>>
    /\ LET req == dbrLister[Key] IN
       dc' = IF req = NoRequest \/ IsProcessed(req)
             THEN [DIdle EXCEPT !.pc = "return", !.result = "nil"]
             ELSE [DIdle EXCEPT !.pc = "name", !.req = req]
    /\ UNCHANGED <<dbrs, dbrLister, backupTracker, cluster>>
    /\ UNCHANGED <<backupVars, restoreVars, clock>>

\* mutant: the failure of a call is logged and processRequest returns nil
FatalSwallowed == [dc EXCEPT !.pc = "return", !.result = "nil", !.failed = dc.pc]

\* processRequest returns the error of the call that failed in this step
Fatal == [dc EXCEPT !.pc = "return", !.result = "err", !.failed = dc.pc]

\* processRequest goes to the patch that rejects the request with one error
Reject(message) == [dc EXCEPT !.pc = "reject", !.errs = <<message>>]

\* mutant: a request need not name a backup
BackupNameOptional(req) == FALSE

\* the request names no backup
BackupNameMissing(req) == req.backupName = ""

\* processRequest: the request must name a backup
ValidateBackupName ==
    /\ dc.pc = "name"
    /\ dc' = IF BackupNameMissing(dc.req) THEN Reject("spec.backupName is required")
             ELSE [dc EXCEPT !.pc = "existing"]
    /\ UNCHANGED <<dbrs, dbrLister, dqueue, dcalls, backupTracker, cluster>>
    /\ UNCHANGED <<backupVars, restoreVars, clock>>

\* the names of a set in the order a lister returns them
RECURSIVE NamesOf(_)
NamesOf(S) ==
    IF S = {} THEN <<>>
    ELSE LET n == CHOOSE x \in S : TRUE IN <<n>> \o NamesOf(S \ {n})

\* mutant: every request of the lister, whatever its backup, but the one in hand
OtherRequestsOfAnyBackup(lister, name, backupName) ==
    {n \in DOMAIN lister : lister[n] # NoRequest /\ n # name}

\* the requests the label selector on the backup name finds, but the one in hand
OtherRequestsOfBackup(lister, name, backupName) ==
    {n \in DOMAIN lister :
        /\ lister[n] # NoRequest
        /\ BackupNameLabel(backupName) \in lister[n].labels
        /\ n # name}

\* processRequest: the other deletion requests of the backup are deleted
DeleteExistingRequests ==
    /\ dc.pc = "existing"
    /\ LET others == OtherRequestsOfBackup(dbrLister, Key, dc.req.backupName)
           names == NamesOf(others)
       IN \E ok \in BOOLEAN :
            /\ ok => \A n \in others : dbrs[n] # NoRequest
            /\ dcalls' = dcalls \o [k \in 1..Len(names) |->
                                       DRet(ok, "delete", "deletebackuprequests", names[k])]
            /\ dbrs' = IF ok THEN [n \in RequestNames |->
                                      IF n \in others THEN NoRequest ELSE dbrs[n]]
                       ELSE dbrs
            /\ dc' = IF ok \/ others = {} THEN [dc EXCEPT !.pc = "tracker"]
                     ELSE Fatal
    /\ UNCHANGED <<dbrLister, dqueue, backupTracker, cluster>>
    /\ UNCHANGED <<backupVars, restoreVars, clock>>

\* mutant: the tracker is not consulted
ContainsNothing(tracked, backupName) == FALSE

\* BackupTracker.Contains
Contains(tracked, backupName) == backupName \in tracked

\* processRequest: a backup that is being created is not deleted
CheckTracker ==
    /\ dc.pc = "tracker"
    /\ LET tracked == dc.req.backupName \in backupTracker IN
       dc' = IF Contains(backupTracker, dc.req.backupName)
             THEN [Reject("backup is still in progress") EXCEPT !.tracked = tracked]
             ELSE [dc EXCEPT !.pc = "get", !.tracked = tracked]
    /\ UNCHANGED <<dbrs, dbrLister, dqueue, dcalls, backupTracker, cluster>>
    /\ UNCHANGED <<backupVars, restoreVars, clock>>

\* mutant: a read-only location does not stop the deletion
LocationErrorUnlessReadOnly(location) ==
    IF location = "missing" THEN "backup storage location default not found" ELSE ""

\* what is wrong with the backup's storage location; "" when it can be written
LocationError(location) ==
    CASE location = "missing" -> "backup storage location default not found"
      [] location = "readonly" ->
            "cannot delete backup because backup storage location default is currently in read-only mode"
      [] OTHER -> ""

\* processRequest: the Backup is fetched and its storage location looked up
GetBackup ==
    /\ dc.pc = "get"
    /\ \E ok \in BOOLEAN :
        /\ dcalls' = Append(dcalls, DRet(ok, "get", "backups", dc.req.backupName))
        /\ dc' = IF ~ok THEN Fatal
                 ELSE IF cluster.backup = "none" THEN Reject("backup not found")
                 ELSE IF LocationError(cluster.location) # ""
                      THEN Reject(LocationError(cluster.location))
                 ELSE [dc EXCEPT !.pc = "inprogress"]
    /\ UNCHANGED <<dbrs, dbrLister, dqueue, backupTracker, cluster>>
    /\ UNCHANGED <<backupVars, restoreVars, clock>>

\* the request after the server applied the JSON merge patch of original -> updated:
\* changed fields are replaced, added labels are merged into the server's labels
DMergePatch(server, original, updated) ==
    [server EXCEPT !.phase = IF updated.phase # original.phase THEN updated.phase ELSE @,
                   !.errors = IF updated.errors # original.errors THEN updated.errors ELSE @,
                   !.labels = @ \cup (updated.labels \ original.labels)]

\* patchDeleteBackupRequest: the call, the request on the server, the worker's copy
PatchRequest(updated, ok, next) ==
    /\ ok => dbrs[Key] # NoRequest
    /\ dcalls' = Append(dcalls, DRet(ok, "patch", "deletebackuprequests", Key))
    /\ IF ok
       THEN LET res == DMergePatch(dbrs[Key], dc.req, updated) IN
            /\ dbrs' = [dbrs EXCEPT ![Key] = res]
            /\ dc' = [next EXCEPT !.req = res]
       ELSE /\ dbrs' = dbrs
            /\ dc' = Fatal

\* processRequest: a rejected request is patched to Processed with its error
PatchRejected ==
    /\ dc.pc = "reject"
    /\ \E ok \in BOOLEAN :
          PatchRequest([dc.req EXCEPT !.phase = DeleteBackupRequestPhaseProcessed,
                                      !.errors = dc.errs],
                       ok, [dc EXCEPT !.pc = "return", !.result = "nil"])
    /\ UNCHANGED <<dbrLister, dqueue, backupTracker, cluster>>
    /\ UNCHANGED <<backupVars, restoreVars, clock>>

\* processRequest: the request is patched to InProgress, with the backup-name
\* label when it has none
PatchInProgress ==
    /\ dc.pc = "inprogress"
    /\ \E ok \in BOOLEAN :
          PatchRequest([dc.req EXCEPT !.phase = DeleteBackupRequestPhaseInProgress,
                                      !.labels = @ \cup {BackupNameLabel(dc.req.backupName)}],
                       ok, [dc EXCEPT !.pc = "uid"])
    /\ UNCHANGED <<dbrLister, dqueue, backupTracker, cluster>>
    /\ UNCHANGED <<backupVars, restoreVars, clock>>

\* processRequest: the backup-uid label is added when the request has none
PatchUIDLabel ==
    /\ dc.pc = "uid"
    /\ IF BackupUIDLabel \in dc.req.labels
       THEN /\ dc' = [dc EXCEPT !.pc = "deleting"]
            /\ UNCHANGED <<dbrs, dcalls>>
       ELSE \E ok \in BOOLEAN :
               PatchRequest([dc.req EXCEPT !.labels = @ \cup {BackupUIDLabel}],
                            ok, [dc EXCEPT !.pc = "deleting"])
    /\ UNCHANGED <<dbrLister, dqueue, backupTracker, cluster>>
    /\ UNCHANGED <<backupVars, restoreVars, clock>>

\* processRequest: the Backup is patched to Deleting
PatchBackupDeleting ==
    /\ dc.pc = "deleting"
    /\ \E ok \in BOOLEAN :
        /\ ok => cluster.backup # "none"
        /\ dcalls' = Append(dcalls, DRet(ok, "patch", "backups", dc.req.backupName))
        /\ cluster' = IF ok THEN [cluster EXCEPT !.backup = BackupPhaseDeleting] ELSE cluster
        /\ dc' = IF ok THEN [dc EXCEPT !.pc = "snapshots"]
                 ELSE Fatal
    /\ UNCHANGED <<dbrs, dbrLister, dqueue, backupTracker>>
    /\ UNCHANGED <<backupVars, restoreVars, clock>>

\* mutant: the errors of the deletions are not kept
Dropped(errs, new) == errs

\* the errors of a deletion step are added to the errors collected so far
Collected(errs, new) == errs \o new

\* processRequest: the volume snapshots the backup store lists are deleted,
\* one DeleteSnapshot call per record; errors are collected
DeleteSnapshots ==
    /\ dc.pc = "snapshots"
    /\ \E getOk \in BOOLEAN, failing \in SUBSET cluster.snapshots :
        /\ ~getOk => failing = {}
        /\ LET ids == IF getOk THEN NamesOf(cluster.snapshots) ELSE <<>> IN
           /\ dcalls' = Append(dcalls, DRet(getOk, "GetBackupVolumeSnapshots",
                                            "backupstore", dc.req.backupName))
                          \o [k \in 1..Len(ids) |->
                                 DRet(ids[k] \notin failing, "DeleteSnapshot",
                                      "snapshotter", ids[k])]
           /\ cluster' = IF getOk THEN [cluster EXCEPT !.snapshots = failing] ELSE cluster
           /\ dc' = [dc EXCEPT !.pc = "restic",
                               !.errs = Collected(@,
                                   (IF getOk THEN <<>>
                                    ELSE <<"error getting backup's volume snapshots">>)
                                   \o [k \in 1..Cardinality(failing) |->
                                          "error deleting snapshot"])]
    /\ UNCHANGED <<dbrs, dbrLister, dqueue, backupTracker>>
    /\ UNCHANGED <<backupVars, restoreVars, clock>>

\* processRequest: the restic repository's data of the backup is deleted when
\* there is any
DeleteResticSnapshots ==
    /\ dc.pc = "restic"
    /\ IF cluster.restic
       THEN \E ok \in BOOLEAN :
            /\ dcalls' = Append(dcalls, DRet(ok, "Forget", "restic", dc.req.backupName))
            /\ cluster' = [cluster EXCEPT !.restic = ~ok]
            /\ dc' = [dc EXCEPT !.pc = "restores",
                                !.errs = IF ok THEN @
                                         ELSE Collected(@, <<"error deleting restic snapshot">>)]
       ELSE /\ dc' = [dc EXCEPT !.pc = "restores"]
            /\ UNCHANGED <<dcalls, cluster>>
    /\ UNCHANGED <<dbrs, dbrLister, dqueue, backupTracker>>
    /\ UNCHANGED <<backupVars, restoreVars, clock>>

\* mutant: every restore is a restore of the backup
RestoresOfAnyBackup(restores, backupName) == restores

\* the restores whose Spec.BackupName is the backup
RestoresReferencing(restores, backupName) ==
    IF backupName = BackupName THEN restores \cap RestoresOfBackup ELSE {}

\* the calls that delete the restores rs: for each its files in the backup
\* store, then its API object
RestoreCalls(rs, storeFailing, apiFailing) ==
    LET names == NamesOf(rs) IN
    [k \in 1..(2 * Len(names)) |->
        LET r == names[(k + 1) \div 2] IN
        IF k % 2 = 1 THEN DRet(r \notin storeFailing, "DeleteRestore", "backupstore", r)
        ELSE DRet(r \notin apiFailing, "delete", "restores", r)]

\* processRequest: the restores of the backup are deleted; errors are collected
DeleteRestores ==
    /\ dc.pc = "restores"
    /\ LET rs == RestoresReferencing(cluster.restores, dc.req.backupName) IN
       \E storeFailing \in SUBSET rs, apiFailing \in SUBSET rs :
        /\ dcalls' = dcalls \o RestoreCalls(rs, storeFailing, apiFailing)
        /\ cluster' = [cluster EXCEPT !.restores = @ \ (rs \ apiFailing),
                                      !.restoreFiles = @ \ (rs \ storeFailing)]
        /\ dc' = [dc EXCEPT !.pc = "contents",
                            !.errs = Collected(@,
                                [k \in 1..Cardinality(storeFailing) |->
                                    "error deleting restore files"]
                                \o [k \in 1..Cardinality(apiFailing) |->
                                       "error deleting restore"])]
    /\ UNCHANGED <<dbrs, dbrLister, dqueue, backupTracker>>
    /\ UNCHANGED <<backupVars, restoreVars, clock>>

\* processRequest: the backup's contents in the backup store are deleted
DeleteBackupContents ==
    /\ dc.pc = "contents"
    /\ \E ok \in BOOLEAN :
        /\ dcalls' = Append(dcalls, DRet(ok, "DeleteBackup", "backupstore", dc.req.backupName))
        /\ cluster' = IF ok THEN [cluster EXCEPT !.contents = FALSE] ELSE cluster
        /\ dc' = [dc EXCEPT !.pc = "backup",
                            !.errs = IF ok THEN @
                                     ELSE Collected(@, <<"error deleting backup contents">>)]
    /\ UNCHANGED <<dbrs, dbrLister, dqueue, backupTracker>>
    /\ UNCHANGED <<backupVars, restoreVars, clock>>

\* processRequest: the Backup API object is deleted
DeleteBackupResource ==
    /\ dc.pc = "backup"
    /\ \E ok \in BOOLEAN :
        /\ ok => cluster.backup # "none"
        /\ dcalls' = Append(dcalls, DRet(ok, "delete", "backups", dc.req.backupName))
        /\ cluster' = IF ok THEN [cluster EXCEPT !.backup = "none"] ELSE cluster
        /\ dc' = [dc EXCEPT !.pc = "processed",
                            !.errs = IF ok THEN @
                                     ELSE Collected(@, <<"error deleting backup">>)]
    /\ UNCHANGED <<dbrs, dbrLister, dqueue, backupTracker>>
    /\ UNCHANGED <<backupVars, restoreVars, clock>>

\* processRequest: the request is patched to Processed with the collected errors
PatchProcessed ==
    /\ dc.pc = "processed"
    /\ \E ok \in BOOLEAN :
          PatchRequest([dc.req EXCEPT !.phase = DeleteBackupRequestPhaseProcessed,
                                      !.errors = dc.errs],
                       ok, IF dc.errs = <<>> THEN [dc EXCEPT !.pc = "collection"]
                           ELSE [dc EXCEPT !.pc = "return", !.result = "nil"])
    /\ UNCHANGED <<dbrLister, dqueue, backupTracker, cluster>>
    /\ UNCHANGED <<backupVars, restoreVars, clock>>

\* mutant: the collection-delete selects every request
RequestsOfAnyBackup(server, backupName) ==
    {n \in DOMAIN server : server[n] # NoRequest}

\* NewDeleteBackupRequestListOptions: the requests with the backup-name and
\* the backup-uid label of the backup
RequestsOfBackup(server, backupName) ==
    {n \in DOMAIN server :
        /\ server[n] # NoRequest
        /\ BackupNameLabel(backupName) \in server[n].labels
        /\ BackupUIDLabel \in server[n].labels}

\* processRequest: after a deletion without errors the requests of the backup
\* are deleted with one DeleteCollection call; the deletion is done whether
\* the call succeeds or not
DeleteCollection ==
    /\ dc.pc = "collection"
    /\ \E ok \in BOOLEAN :
        /\ dcalls' = Append(dcalls, DRet(ok, "delete-collection", "deletebackuprequests",
                                         dc.req.backupName))
        /\ dbrs' = IF ok
                   THEN [n \in RequestNames |->
                            IF n \in RequestsOfBackup(dbrs, dc.req.backupName)
                            THEN NoRequest ELSE dbrs[n]]
                   ELSE dbrs
        /\ dc' = [dc EXCEPT !.pc = "return", !.result = "nil"]
    /\ UNCHANGED <<dbrLister, dqueue, backupTracker, cluster>>
    /\ UNCHANGED <<backupVars, restoreVars, clock>>

\* the worker is done with the key: an error puts the key back on the queue
DReconciled ==
    /\ dc.pc = "return"
    /\ dc' = [dc EXCEPT !.pc = "idle"]
    /\ dqueue' = (dqueue \/ dc.result = "err")
    /\ UNCHANGED <<dbrs, dbrLister, dcalls, backupTracker, cluster>>
    /\ UNCHANGED <<backupVars, restoreVars, clock>>

NextDeletion ==
    \/ DAddFunc
    \/ DInformerUpdate
    \/ BackupStart
    \/ BackupEnd
    \/ DProcessQueueItem
    \/ ValidateBackupName
    \/ DeleteExistingRequests
    \/ CheckTracker
    \/ GetBackup
    \/ PatchRejected
    \/ PatchInProgress
    \/ PatchUIDLabel
    \/ PatchBackupDeleting
    \/ DeleteSnapshots
    \/ DeleteResticSnapshots
    \/ DeleteRestores
    \/ DeleteBackupContents
    \/ DeleteBackupResource
    \/ PatchProcessed
    \/ DeleteCollection
    \/ DReconciled

SpecDeletion == InitDeletion /\ [][NextDeletion]_vars

-----------------------------------------------------------------------------
(* Properties of the backup deletion controller *)

\* how far a phase is along New -> InProgress -> Processed
PhaseRank(phase) ==
    CASE phase = DeleteBackupRequestPhaseInProgress -> 1
      [] phase = DeleteBackupRequestPhaseProcessed -> 2
      [] OTHER -> 0

\* C23: the phase of the request on the server never moves backwards, and
\* once it is Processed neither its phase nor its errors change again (the
\* request can only be deleted).
C23_ForwardOnly ==
    [][ (dbrs[Key] # NoRequest /\ dbrs'[Key] # NoRequest) =>
          /\ PhaseRank(dbrs'[Key].phase) >= PhaseRank(dbrs[Key].phase)
          /\ IsProcessed(dbrs[Key]) =>
                /\ dbrs'[Key].phase = dbrs[Key].phase
                /\ dbrs'[Key].errors = dbrs[Key].errors
      ]_vars

\* the positions of the calls of a verb on a resource in the calls of the
\* reconciliation
DCallsOf(verb, resource) ==
    {k \in 1..Len(dcalls) : dcalls[k].verb = verb /\ dcalls[k].resource = resource}

\* the positions of the calls that delete an artifact of a backup
ArtifactCalls ==
    DCallsOf("DeleteSnapshot", "snapshotter") \cup DCallsOf("Forget", "restic")
    \cup DCallsOf("DeleteRestore", "backupstore") \cup DCallsOf("delete", "restores")
    \cup DCallsOf("DeleteBackup", "backupstore") \cup DCallsOf("delete", "backups")

\* C23 witness: a request that was New went through InProgress to Processed
\* with errors, in one reconciliation
C23_Witness ==
    /\ dc.pc = "return"
    /\ dbrLister[Key].phase = DeleteBackupRequestPhaseNew
    /\ Len(dcalls) >= 4
    /\ dcalls[2] = DCall("patch", "deletebackuprequests", Key)
    /\ dbrs[Key] # NoRequest
    /\ dbrs[Key].phase = DeleteBackupRequestPhaseProcessed
    /\ dbrs[Key].errors # <<>>

\* the call at position k of the reconciliation is the patch of the request
IsRequestPatch(k) ==
    /\ dcalls[k].verb = "patch"
    /\ dcalls[k].resource = "deletebackuprequests"
    /\ dcalls[k].name = Key

\* the request on the server is Processed with the one error message
ProcessedWith(message) ==
    /\ dbrs[Key] # NoRequest
    /\ dbrs[Key].phase = DeleteBackupRequestPhaseProcessed
    /\ dbrs[Key].errors = <<message>>

\* processRequest returned for the request it was handed
Returned == dc.pc = "return" /\ dc.req # NoRequest

\* C24: when processRequest returns for a request with an empty
\* Spec.BackupName it has issued exactly one API call, a patch of the request
\* (nothing was fetched or deleted), and with that patch accepted it returns
\* no error and the request is Processed with the single error
\* "spec.backupName is required".
C24_MissingBackupName ==
    (Returned /\ dc.req.backupName = "") =>
        /\ Len(dcalls) = 1
        /\ IsRequestPatch(1)
        /\ dcalls[1].ret = "ok" =>
              /\ dc.result = "nil"
              /\ ProcessedWith("spec.backupName is required")

\* C24 witness: a New request without a backup name was rejected with one patch
C24_Witness ==
    /\ Returned
    /\ dc.req.backupName = ""
    /\ dbrLister[Key].phase = DeleteBackupRequestPhaseNew
    /\ dcalls = <<DCall("patch", "deletebackuprequests", Key)>>
    /\ dc.result = "nil"
    /\ ProcessedWith("spec.backupName is required")

\* C25: when processRequest returns for a request whose backup the tracker
\* contained when it was consulted, the calls it issued are the deletions of
\* the other requests of the backup, if any, and then one patch of the
\* request: the Backup was not fetched or patched and no artifact was
\* deleted; with the patch accepted it returns no error and the request is
\* Processed with the single error "backup is still in progress".
C25_BackupInProgress ==
    (Returned /\ dc.tracked) =>
        LET n == Len(dcalls) IN
        /\ dc.errs = <<"backup is still in progress">>
        /\ n = 1 + Cardinality(DCallsOf("delete", "deletebackuprequests"))
        /\ IsRequestPatch(n)
        /\ DCallsOf("get", "backups") = {}
        /\ DCallsOf("patch", "backups") = {}
        /\ ArtifactCalls = {}
        /\ dcalls[n].ret = "ok" =>
              /\ dc.result = "nil"
              /\ ProcessedWith("backup is still in progress")

\* C25 witness: the backup is running, there is no other request, and the
\* request was rejected with one patch
C25_Witness ==
    /\ Returned
    /\ dc.tracked
    /\ cluster.backup = BackupPhaseInProgress
    /\ dbrs["bar"] = NoRequest
    /\ dbrLister["bar"] = NoRequest
    /\ dcalls = <<DCall("patch", "deletebackuprequests", Key)>>
    /\ dc.result = "nil"
    /\ ProcessedWith("backup is still in progress")

\* C26: while the tracker contains the backup no step deletes a volume
\* snapshot of the backup, its contents in the store or its Backup resource.
C26_NoDeletionWhileTracked ==
    [][ (BackupName \in backupTracker) =>
          (/\ cluster.snapshots \subseteq cluster'.snapshots
           /\ cluster.contents => cluster'.contents
           /\ (cluster.backup # "none") => (cluster'.backup # "none"))
      ]_vars

\* C27: the step of processRequest that follows the check of the backup name
\* and precedes the check of the tracker issues one delete call for each
\* request the informer shows with the label of the same backup name, except
\* the request in hand, and no other call; it leaves the request in hand and
\* the requests of other backups alone; and no other step but the final
\* collection-delete removes a request.
C27_OnlyOtherRequestsOfBackup ==
    [][ /\ (dc.pc = "existing" /\ dc'.pc # "existing") =>
              LET new == SubSeq(dcalls', Len(dcalls) + 1, Len(dcalls'))
                  named == {new[k].name : k \in 1..Len(new)}
              IN /\ dcalls = <<>>
                 /\ dc'.pc \in {"tracker", "return"}
                 /\ \A k \in 1..Len(new) :
                       new[k].verb = "delete" /\ new[k].resource = "deletebackuprequests"
                 /\ named = {n \in RequestNames \ {Key} :
                                /\ dbrLister[n] # NoRequest
                                /\ BackupNameLabel(dc.req.backupName) \in dbrLister[n].labels}
                 /\ dbrs'[Key] = dbrs[Key]
                 /\ dbrs'["bar-2"] = dbrs["bar-2"]
                 /\ (dc'.pc = "tracker") => (\A n \in named : dbrs'[n] = NoRequest)
        /\ (dc.pc \notin {"existing", "collection"}) =>
              (\A n \in RequestNames : dbrs[n] # NoRequest => dbrs'[n] # NoRequest)
      ]_vars

\* C27 witness: the request "bar" of the same backup was deleted, the request
\* in hand and the request "bar-2" of another backup are still there, and the
\* tracker is consulted next
C27_Witness ==
    /\ dc.pc = "tracker"
    /\ dcalls = <<DCall("delete", "deletebackuprequests", "bar")>>
    /\ dbrs["bar"] = NoRequest
    /\ dbrs["bar-2"] = OtherRequest("bar-2")
    /\ dbrs[Key] # NoRequest
    /\ dbrs[Key].backupName = BackupName

\* C28: after the patch of the request to InProgress or the patch of the
\* Backup to Deleting failed, processRequest has returned the error and the
\* key is put back on the queue; the failed patch is the last call of the
\* reconciliation, no artifact was deleted and the request is not Processed.
C28_PatchFailureIsFatal ==
    (dc.failed \in {"inprogress", "deleting"}) =>
        LET n == Len(dcalls) IN
        /\ dc.pc \in {"return", "idle"}
        /\ dc.result = "err"
        /\ (dc.pc = "idle") => dqueue
        /\ n >= 2
        /\ dcalls[n].ret = "err"
        /\ dcalls[n].verb = "patch"
        /\ dcalls[n].resource = (IF dc.failed = "inprogress" THEN "deletebackuprequests"
                                 ELSE "backups")
        /\ \A k \in 1..(n - 1) : dcalls[k].ret = "ok"
        /\ ArtifactCalls = {}
        /\ DCallsOf("GetBackupVolumeSnapshots", "backupstore") = {}
        /\ DCallsOf("delete-collection", "deletebackuprequests") = {}
        /\ dbrs[Key] # NoRequest
        /\ dbrs[Key].phase # DeleteBackupRequestPhaseProcessed

\* C28 witness: the request is InProgress, the patch of the Backup to Deleting
\* failed, and the key is back on the queue
C28_Witness ==
    /\ dc.failed = "deleting"
    /\ dc.pc = "idle"
    /\ dqueue
    /\ dbrs[Key].phase = DeleteBackupRequestPhaseInProgress
    /\ dcalls = <<DCall("get", "backups", BackupName),
                  DCall("patch", "deletebackuprequests", Key),
                  DCallErr("patch", "backups", BackupName)>>
    /\ cluster.backup = BackupPhaseCompleted
    /\ cluster.snapshots = {"snap-1"}
    /\ cluster.contents

\* what processRequest says of a Backup or a storage location it cannot use
BackupRejections ==
    {<<"backup not found">>,
     <<"backup storage location default not found">>,
     <<"cannot delete backup because backup storage location default is currently in read-only mode">>}

\* processRequest returned after it fetched the Backup and found it missing,
\* or its storage location missing or read-only
BackupRejected ==
    /\ Returned
    /\ \/ dc.errs = <<"backup not found">>
       \/ /\ cluster.location # "rw"
          /\ \E k \in DCallsOf("get", "backups") : dcalls[k].ret = "ok"

\* the last two calls are the get of the Backup and the patch of the request,
\* the request was not patched before, the Backup was not patched and no
\* artifact was deleted; with the patch accepted processRequest returns no
\* error and the request is Processed with the one error
GetThenProcessedPatch ==
    LET n == Len(dcalls) IN
    /\ n >= 2
    /\ dcalls[n - 1] = DCall("get", "backups", BackupName)
    /\ IsRequestPatch(n)
    /\ DCallsOf("patch", "deletebackuprequests") = {n}
    /\ DCallsOf("patch", "backups") = {}
    /\ ArtifactCalls = {}
    /\ dc.errs \in BackupRejections
    /\ IF dcalls[n].ret = "ok"
       THEN dc.result = "nil" /\ ProcessedWith(dc.errs[1])
       ELSE dc.failed = "reject"

\* C29 as stated: when the Backup is not found, or its storage location is
\* not found or read-only, processRequest issues exactly two API calls, the
\* get of the Backup and the Processed patch with one error.
C29_ExactlyTwoCalls ==
    BackupRejected => (GetThenProcessedPatch /\ Len(dcalls) = 2)

\* C29 amended: the get of the Backup and the Processed patch with one error
\* are the only API calls besides the deletions of the other requests of the
\* same backup, which precede them.
C29_TwoCallsAfterDeletions ==
    BackupRejected =>
        /\ GetThenProcessedPatch
        /\ Len(dcalls) = 2 + Cardinality(DCallsOf("delete", "deletebackuprequests"))
        /\ \A k \in DCallsOf("delete", "deletebackuprequests") : k < Len(dcalls) - 1

\* C29 witness: the read-only location stopped the deletion of a complete
\* backup after the other request of the backup was deleted
C29_Witness ==
    /\ Returned
    /\ cluster.location = "readonly"
    /\ cluster.backup = BackupPhaseCompleted
    /\ cluster.contents
    /\ dcalls = <<DCall("delete", "deletebackuprequests", "bar"),
                  DCall("get", "backups", BackupName),
                  DCall("patch", "deletebackuprequests", Key)>>
    /\ dc.result = "nil"
    /\ ProcessedWith("cannot delete backup because backup storage location default is currently in read-only mode")

\* every position of A comes before every position of B
Before(A, B) == \A a \in A, b \in B : a < b

\* the positions of the calls that delete a restore: its files, its API object
RestoreDeletions ==
    DCallsOf("DeleteRestore", "backupstore") \cup DCallsOf("delete", "restores")

\* the positions of the patches of the request after the Backup was patched
PatchesAfterDeleting ==
    {k \in DCallsOf("patch", "deletebackuprequests") :
        \E j \in DCallsOf("patch", "backups") : j < k}

\* C30: in the calls of a reconciliation the artifacts are deleted after an
\* accepted patch of the request (to InProgress) and then an accepted patch
\* of the Backup (to Deleting), in the order volume snapshots, restores,
\* contents in the store, Backup resource; the restores deleted are restores
\* of this backup; the request is patched again (to Processed) only after
\* the Backup resource was deleted; and while the artifacts are being deleted
\* the request is InProgress and the Backup Deleting.
C30_DeletionOrder ==
    LET snaps == DCallsOf("GetBackupVolumeSnapshots", "backupstore")
                    \cup DCallsOf("DeleteSnapshot", "snapshotter")
        contents == DCallsOf("DeleteBackup", "backupstore")
        resource == DCallsOf("delete", "backups")
    IN /\ \A a \in snaps \cup ArtifactCalls :
             \E i \in DCallsOf("patch", "deletebackuprequests"),
                j \in DCallsOf("patch", "backups") :
                 /\ i < j /\ j < a
                 /\ dcalls[i].ret = "ok" /\ dcalls[j].ret = "ok"
       /\ Before(snaps, RestoreDeletions \cup contents \cup resource)
       /\ Before(RestoreDeletions, contents \cup resource)
       /\ Before(contents, resource)
       /\ Before(snaps \cup ArtifactCalls, PatchesAfterDeleting)
       /\ \A k \in RestoreDeletions : dcalls[k].name \in RestoresOfBackup
       /\ OtherRestores \subseteq cluster.restores
       /\ PatchesAfterDeleting # {} =>
             /\ snaps # {} /\ contents # {} /\ resource # {}
             /\ Cardinality(PatchesAfterDeleting) = 1
       /\ dc.pc \in {"snapshots", "restic", "restores", "contents", "backup"} =>
             /\ dbrs[Key] # NoRequest
             /\ dbrs[Key].phase = DeleteBackupRequestPhaseInProgress
             /\ cluster.backup = BackupPhaseDeleting

\* C30 witness: a complete backup with a snapshot and two restores was
\* deleted without errors, the restore of the other backup is still there
C30_Witness ==
    /\ Returned
    /\ dc.result = "nil"
    /\ dcalls = <<DCall("get", "backups", BackupName),
                  DCall("patch", "deletebackuprequests", Key),
                  DCall("patch", "backups", BackupName),
                  DCall("GetBackupVolumeSnapshots", "backupstore", BackupName),
                  DCall("DeleteSnapshot", "snapshotter", "snap-1"),
                  DCall("DeleteRestore", "backupstore", NamesOf(RestoresOfBackup)[1]),
                  DCall("delete", "restores", NamesOf(RestoresOfBackup)[1]),
                  DCall("DeleteRestore", "backupstore", NamesOf(RestoresOfBackup)[2]),
                  DCall("delete", "restores", NamesOf(RestoresOfBackup)[2]),
                  DCall("DeleteBackup", "backupstore", BackupName),
                  DCall("delete", "backups", BackupName),
                  DCall("patch", "deletebackuprequests", Key),
                  DCall("delete-collection", "deletebackuprequests", BackupName)>>
    /\ cluster.restores = OtherRestores
    /\ cluster.backup = "none"
    /\ cluster.snapshots = {}

\* the Backup was patched to Deleting in this reconciliation
BackupMarkedDeleting ==
    \E j \in DCallsOf("patch", "backups") : dcalls[j].ret = "ok"

\* the positions of the failed calls of the deletion steps
FailedDeletions ==
    {k \in 1..Len(dcalls) :
        /\ dcalls[k].ret = "err"
        /\ k \in ArtifactCalls \cup DCallsOf("GetBackupVolumeSnapshots", "backupstore")}

\* C31: when processRequest returns after the request was patched to
\* InProgress and the Backup to Deleting, every deletion step was attempted
\* whatever failed before it, the request was then patched once more, with
\* one error for each failed deletion, and with that patch accepted
\* processRequest returns no error and the request is Processed with these
\* errors (or, after a deletion without errors, gone with the collection).
C31_AlwaysProcessed ==
    (Returned /\ BackupMarkedDeleting) =>
        /\ DCallsOf("GetBackupVolumeSnapshots", "backupstore") # {}
        /\ DCallsOf("DeleteBackup", "backupstore") # {}
        /\ DCallsOf("delete", "backups") # {}
        /\ Cardinality(DCallsOf("DeleteRestore", "backupstore"))
              = Cardinality(DCallsOf("delete", "restores"))
        /\ Cardinality(PatchesAfterDeleting) = 1
        /\ Len(dc.errs) = Cardinality(FailedDeletions)
        /\ \A k \in PatchesAfterDeleting :
              dcalls[k].ret = "ok" =>
                 /\ dc.result = "nil"
                 /\ \/ /\ dbrs[Key] # NoRequest
                       /\ dbrs[Key].phase = DeleteBackupRequestPhaseProcessed
                       /\ dbrs[Key].errors = dc.errs
                    \/ /\ dbrs[Key] = NoRequest
                       /\ dc.errs = <<>>

\* C31 witness: the snapshot could not be deleted; the restores, the
\* contents and the Backup resource were deleted all the same and the request
\* is Processed with the one error
C31_Witness ==
    /\ Returned
    /\ dc.result = "nil"
    /\ dc.errs = <<"error deleting snapshot">>
    /\ dbrs[Key] # NoRequest
    /\ dbrs[Key].phase = DeleteBackupRequestPhaseProcessed
    /\ dbrs[Key].errors = <<"error deleting snapshot">>
    /\ cluster.snapshots = {"snap-1"}
    /\ cluster.restores = OtherRestores
    /\ ~cluster.contents
    /\ cluster.backup = "none"

\* C32: a reconciliation issues at most one collection-delete, as its last
\* call, right after the accepted Processed patch of a deletion in which no
\* call failed; a deletion that collected no error and whose Processed patch
\* was accepted has issued it when processRequest returns, a deletion that
\* collected errors has not; an accepted collection-delete leaves no request
\* with the backup-name and backup-uid labels of the backup and leaves the
\* request of the other backup alone.
C32_CollectionDeleteOnSuccess ==
    LET cd == DCallsOf("delete-collection", "deletebackuprequests") IN
    /\ Cardinality(cd) <= 1
    /\ \A c \in cd :
          /\ c = Len(dcalls)
          /\ c - 1 \in PatchesAfterDeleting
          /\ dcalls[c - 1].ret = "ok"
          /\ dcalls[c].name = BackupName
          /\ dc.errs = <<>>
          /\ FailedDeletions = {}
          /\ dcalls[c].ret = "ok" =>
                /\ RequestsOfBackup(dbrs, BackupName) = {}
                /\ dbrs["bar-2"] = dbrLister["bar-2"]
    /\ (Returned /\ BackupMarkedDeleting) =>
          (cd # {} <=> /\ dc.errs = <<>>
                       /\ \A k \in PatchesAfterDeleting : dcalls[k].ret = "ok")

\* C32 witness: after a deletion without errors the collection-delete removed
\* the request; the request of the other backup is still there
C32_Witness ==
    /\ Returned
    /\ BackupMarkedDeleting
    /\ dc.errs = <<>>
    /\ dcalls[Len(dcalls)] = DCall("delete-collection", "deletebackuprequests", BackupName)
    /\ dbrs[Key] = NoRequest
    /\ dbrs["bar-2"] = OtherRequest("bar-2")

-----------------------------------------------------------------------------
(* deleteExpiredRequests: the sweep of the backup deletion controller *)

\* how long a Processed request is kept: 24 hours
MaxRequestAge == 86400

\* how many seconds the clock advances at most
MaxTicks == 1

\* creation times: ten hours beyond the retention window, exactly at it, one
\* second short of it, one hour ago
CreationTimes ==
    {Now - MaxRequestAge - 36000, Now - MaxRequestAge, Now - MaxRequestAge + 1, Now - 3600}

\* the requests of the sweep: any phase, any of the creation times
SweptRequests ==
    [phase : {"", DeleteBackupRequestPhaseNew, DeleteBackupRequestPhaseInProgress,
              DeleteBackupRequestPhaseProcessed},
     backupName : {BackupName}, labels : {{}}, errors : {<<>>},
     created : CreationTimes]

\* the informer has one or two requests; the worker is not running
InitSweep ==
    /\ InitBackup
    /\ InitNoRestore
    /\ \E r1 \in SweptRequests, r2 \in SweptRequests \cup {NoRequest} :
          dbrs = [n \in RequestNames |->
                     IF n = Key THEN r1 ELSE IF n = "bar" THEN r2 ELSE NoRequest]
    /\ dbrLister = dbrs
    /\ dqueue = FALSE
    /\ dc = DIdle
    /\ dcalls = <<>>
    /\ backupTracker = {}
    /\ cluster = NoBackup
    /\ clock = Now

\* a second passes
Tick ==
    /\ clock < Now + MaxTicks
    /\ clock' = clock + 1
    /\ UNCHANGED <<dbrs, dbrLister, dqueue, dc, dcalls, backupTracker, cluster>>
    /\ UNCHANGED <<backupVars, restoreVars>>

\* mutant: a request is expired only when it is older than the window
ExpiredStrictly(created, now) == now - created > MaxRequestAge

\* the age of the request has reached the retention window
Expired(created, now) == now - created >= MaxRequestAge

\* deleteExpiredRequests: one delete call for every Processed request of the
\* informer whose age has reached the window; a failed delete is logged
DeleteExpiredRequests ==
    LET expired == {n \in RequestNames :
                       /\ dbrLister[n] # NoRequest
                       /\ IsProcessed(dbrLister[n])
                       /\ Expired(dbrLister[n].created, clock)}
        names == NamesOf(expired)
    IN \E failing \in SUBSET expired :
        /\ \A n \in expired \ failing : dbrs[n] # NoRequest
        /\ dcalls' = [k \in 1..Len(names) |->
                         DRet(names[k] \notin failing, "delete", "deletebackuprequests",
                              names[k])]
        /\ dbrs' = [n \in RequestNames |->
                       IF n \in expired \ failing THEN NoRequest ELSE dbrs[n]]
        /\ UNCHANGED <<dbrLister, dqueue, dc, backupTracker, cluster, clock>>
        /\ UNCHANGED <<backupVars, restoreVars>>

\* the informer cache catches up with the deletions
SweepObserved ==
    /\ dbrLister # dbrs
    /\ dbrLister' = dbrs
    /\ UNCHANGED <<dbrs, dqueue, dc, dcalls, backupTracker, cluster, clock>>
    /\ UNCHANGED <<backupVars, restoreVars>>

NextSweep ==
    \/ Tick
    \/ DeleteExpiredRequests
    \/ SweepObserved

SpecSweep == InitSweep /\ [][NextSweep]_vars

\* C33: the delete calls of a sweep name exactly the requests of the
\* informer that are Processed and were created at or before the clock's
\* time minus the retention window, each once; a sweep removes no other
\* request from the server.
C33_SweepsExpiredProcessed ==
    [][ (clock' = clock /\ dbrLister' = dbrLister) =>
          LET due == {n \in RequestNames :
                         /\ dbrLister[n] # NoRequest
                         /\ dbrLister[n].phase = DeleteBackupRequestPhaseProcessed
                         /\ dbrLister[n].created <= clock - MaxRequestAge}
          IN /\ {dcalls'[k].name : k \in 1..Len(dcalls')} = due
             /\ Len(dcalls') = Cardinality(due)
             /\ \A k \in 1..Len(dcalls') :
                   /\ dcalls'[k].verb = "delete"
                   /\ dcalls'[k].resource = "deletebackuprequests"
             /\ \A n \in RequestNames \ due : dbrs'[n] = dbrs[n]
      ]_vars

\* C33 witness: of two Processed requests the one created exactly the
\* retention window ago was deleted, the one created a second later was kept
C33_Witness ==
    /\ clock = Now
    /\ dbrLister[Key].phase = DeleteBackupRequestPhaseProcessed
    /\ dbrLister[Key].created = Now - MaxRequestAge + 1
    /\ dbrLister["bar"].phase = DeleteBackupRequestPhaseProcessed
    /\ dbrLister["bar"].created = Now - MaxRequestAge
    /\ dcalls = <<DCall("delete", "deletebackuprequests", "bar")>>
    /\ dbrs["bar"] = NoRequest
    /\ dbrs[Key] = dbrLister[Key]

-----------------------------------------------------------------------------
(* Termination and frame properties of the item backupper *)

\* the steps of a backupItem call and of the calls it makes
BackupItemSteps ==
    \/ Enter
    \/ PreHooks
    \/ ExecuteAction
    \/ FetchAdditional
    \/ ActionsDone
    \/ PostHooksAfterActionError
    \/ TakePVSnapshot
    \/ BackupPodVolumes
    \/ PostHooks
    \/ WriteItem
    \/ Return

\* the goroutine of the backup keeps running, and hooks, actions and
\* providers return
SpecFair == Spec /\ WF_vars(BackupItemSteps)

\* the positions of the calls on the stack that are past the dedup check
Entered == {n \in 1..Len(stack) : stack[n].pc \notin {"start", "done"}}

\* C34: the backupItem calls in progress that are past the dedup check are
\* calls on pairwise different keys, all recorded, so there are at most as
\* many as items; above them there is at most the one call that is being
\* skipped or is returning; and every backupItem call returns.
C34_Terminates ==
    /\ [](/\ \A m \in Entered, n \in Entered :
                m # n => itemKey(stack[m].item) # itemKey(stack[n].item)
          /\ \A n \in Entered : itemKey(stack[n].item) \in BackedUpItems
          /\ Cardinality(Entered) <= Cardinality(Items)
          /\ Len(stack) <= Cardinality(Entered) + 1)
    /\ (stack # <<>>) ~> (stack = <<>>)

\* C34 witness: p1's action asked for p2, p2's action asks for p1 again: the
\* call on p1 inside the call on p2 inside the call on p1 was skipped
C34_Witness ==
    /\ Len(stack) = 3
    /\ stack[1].item = "p1"
    /\ stack[2].item = "p2"
    /\ stack[3].item = "p1"
    /\ stack[3].pc = "done"
    /\ stack[3].skipped = "dedup"

\* the positions of the headers written to the archive
Headers == {n \in 1..Len(archive) : archive[n].kind = "header"}

\* the items a filter of the request skips: of an excluded namespace, of an
\* excluded resource type, or marked for deletion
FilteredOut ==
    {i \in Items : \/ Ns(i) \notin {"", "ns1"}
                   \/ Res(i) = Secrets
                   \/ i = "cm1"}

\* the frames of the calls on filtered items
FilteredFrames == {n \in 1..Len(stack) : stack[n].item \in FilteredOut}

\* C35: a call of backupItem on an item a filter skips returns nil and leaves
\* BackedUpItems, the tracker, VolumeSnapshots, PodVolumeBackups and the
\* archive as they were, with no hook and no action run, also when the call
\* is for an additional item of an action.
C35_FilterSkipLeavesState ==
    [][ (stack # <<>> /\ Top.item \in FilteredOut) =>
          /\ UNCHANGED <<BackedUpItems, tracker, VolumeSnapshots,
                         PodVolumeBackups, archive, snapshotters>>
          /\ Top.pc \in {"start", "done"}
          /\ Top.pc = "start" =>
                /\ Len(stack') = Len(stack)
                /\ stack'[Len(stack)] =
                      [Top EXCEPT !.pc = "done", !.result = "nil",
                                  !.skipped = "filter"]
          /\ Top.pc = "done" =>
                /\ Top.result = "nil" /\ Top.pre = "none" /\ ~Top.post
                /\ ~Top.hdr /\ ~Top.body /\ Top.ai = 1 /\ Top.rem = <<>>
                /\ Len(stack') = Len(stack) - 1
                /\ Len(stack) > 1 => stack'[Len(stack) - 1].errs
                                       = stack[Len(stack) - 1].errs ]_vars

\* the call on config map cm2 of the excluded namespace, requested by an action
\* of a pod whose pre hooks have run, has been skipped
C35_Witness ==
    /\ Len(stack) = 2
    /\ stack[2].item = "cm2" /\ stack[2].pc = "done" /\ stack[2].skipped = "filter"
    /\ stack[1].pre = "ok"
    /\ BackedUpItems # {}

\* restorer.Restore is among the calls of the reconciliation in progress
EngineInvoked == \E n \in 1..Len(calls) : calls[n].call = "Restore"

\* C36: when the first status patch of processRestore fails, processRestore
\* returns an error, the Restore the API server has is unchanged and new, the
\* restore engine has not been invoked, the key goes back on the queue, and
\* the next delivery validates the Restore the API server has.
C36_FirstPatchFailure ==
    [][ /\ (rc.pc = "patch" /\ rc'.pc = "return" /\ rc'.result = "err") =>
              /\ apiRestore' = apiRestore
              /\ apiRestore.phase \in {"", RestorePhaseNew}
              /\ persisted' = <<>>
              /\ history'.restored = 0
              /\ ~EngineInvoked'
        /\ (history.patchFailed /\ rc.pc = "return" /\ rc.result = "err"
                /\ rc'.pc = "idle") => queue'
        /\ (history.patchFailed /\ persisted = <<>> /\ rc.pc = "idle"
                /\ rc'.pc = "validate") =>
              /\ rc'.restore = apiRestore
              /\ rc'.original = apiRestore
              /\ calls' = <<>> ]_vars

\* after a failed first patch the key was delivered again, and that delivery
\* has validated the Restore and persisted InProgress
C36_Witness ==
    /\ history.patchFailed
    /\ rc.pc = "run"
    /\ persisted = <<RestorePhaseInProgress>>

\* the phases of a Restore nobody has processed yet
NewPhases == {"", RestorePhaseNew}

\* C37: the add handler enqueues the key exactly when the Restore it observes
\* is in phase "" or New; processQueueItem goes on to processRestore only with
\* a Restore the lister shows in phase "" or New, and with any other phase it
\* returns with no call made and nothing patched.
C37_OnlyNewRestores ==
    [][ /\ (listed = NoRestore /\ listed' # NoRestore) =>
              /\ queue' = (listed'.phase \in NewPhases)
              /\ UNCHANGED <<apiRestore, rc, calls, persisted, history>>
        /\ (rc.pc = "idle" /\ rc'.pc = "validate") =>
              /\ listed.phase \in NewPhases
              /\ rc'.restore = listed
        /\ (rc.pc = "idle" /\ rc'.pc # "idle" /\ listed.phase \notin NewPhases) =>
              /\ rc'.pc = "return"
              /\ calls' = <<>>
              /\ UNCHANGED <<apiRestore, persisted>>
              /\ history'.restored = history.restored
        /\ (rc.pc \in {"validate", "patch"}) => rc.original.phase \in NewPhases
        /\ (persisted' # persisted \/ history'.restored # history.restored) =>
              history.deliveries > 0 /\ rc.pc \in {"patch", "run", "final"} ]_vars

\* the add handler has seen a Restore that is already Completed and has left
\* the queue empty: the worker never gets its key
C37_Witness ==
    /\ listed.phase = RestorePhaseCompleted
    /\ ~queue
    /\ rc = Idle
    /\ history = NoHistory

\* C38: over all deliveries of the key, restorer.Restore is called at most
\* once for the Restore; a delivery that calls it is the only one that got
\* its first patch through.
C38_EngineAtMostOnce ==
    /\ history.restored <= 1
    /\ Cardinality({n \in 1..Len(calls) : calls[n].call = "Restore"}) <= history.restored
    /\ history.restored = 1 =>
          Cardinality({n \in 1..Len(persisted) :
                          persisted[n] = RestorePhaseInProgress}) = 1
    /\ (queue /\ history.deliveries > 0) =>
          (history.restored = 0 /\ persisted = <<>>)

\* the key was delivered more than once, the first patch of one delivery
\* failed, and the engine has been called in a later delivery, which is over
C38_Witness ==
    /\ history.deliveries = MaxDeliveries
    /\ history.patchFailed
    /\ history.restored = 1
    /\ rc.pc = "idle"
    /\ listed = apiRestore

\* C40: no temp file of a restore is left once runValidatedRestore has
\* returned: the log file and the downloaded backup file are closed and
\* removed on every path.
C40_NoTempFilesLeft == history.tempFiles = {}

\* C39: no two entries of the archive have the same path.
C39_UniquePaths ==
    \A m \in Headers, n \in Headers : m # n => archive[m].path # archive[n].path
====
